---------------------------- MODULE Spec2Model ----------------------------
(***************************************************************************)
(* A model of the answer-grading engine of the acadTest repository         *)
(* (assessment/services/grading_service.py).                               *)
(*                                                                         *)
(* Texts are sequences of one-character strings, so that trimming, case    *)
(* folding, whitespace splitting, substring search and the two regular     *)
(* expressions are computed character by character.                        *)
(*                                                                         *)
(* Python floats are modelled by exact fixed-point numbers: a sub-score x  *)
(* in [0, 1] is the integer x * Unit, a combined score is kept in tenths   *)
(* of that unit, marks and scores are in hundredths (cents).  The cosine   *)
(* similarity, irrational in general, is rounded down to a multiple of     *)
(* 1 / Unit.                                                               *)
(***************************************************************************)
EXTENDS Integers, Sequences, FiniteSets, TLC

(***************************************************************************)
(* Characters                                                              *)
(***************************************************************************)
LowerChars ==
  <<"a","b","c","d","e","f","g","h","i","j","k","l","m",
    "n","o","p","q","r","s","t","u","v","w","x","y","z">>

UpperChars ==
  <<"A","B","C","D","E","F","G","H","I","J","K","L","M",
    "N","O","P","Q","R","S","T","U","V","W","X","Y","Z">>

LowerSet == { LowerChars[i] : i \in 1..26 }

UpperSet == { UpperChars[i] : i \in 1..26 }

DigitSet == {"0","1","2","3","4","5","6","7","8","9"}

\* str.isspace for the characters used: blank, tab, newline
SpaceSet == {" ", "\t", "\n"}

IsSpace(c) == c \in SpaceSet

\* [a-zA-Z]
IsAlpha(c) == c \in LowerSet \/ c \in UpperSet

\* \w of the re module: letters, digits, underscore
WordChars == LowerSet \cup UpperSet \cup DigitSet \cup {"_"}

UpperChar(c) ==
  IF c \in LowerSet
    THEN UpperChars[CHOOSE i \in 1..26 : LowerChars[i] = c]
    ELSE c

LowerChar(c) ==
  IF c \in UpperSet
    THEN LowerChars[CHOOSE i \in 1..26 : UpperChars[i] = c]
    ELSE c

(***************************************************************************)
(* Evaluation order.  A statement `x = e` of the source evaluates e once   *)
(* and names the value; The({ body : x \in {e} }) does the same here.      *)
(***************************************************************************)
\* the element of a one-element set
The(S) == CHOOSE x \in S : TRUE

(***************************************************************************)
(* Strings (str methods used by the grader)                                *)
(***************************************************************************)
\* str.upper()
Upper(text) ==
  The({ SubSeq([i \in 1..Len(s) |-> UpperChar(s[i])], 1, Len(s)) : s \in {text} })

\* str.lower()
Lower(text) ==
  The({ SubSeq([i \in 1..Len(s) |-> LowerChar(s[i])], 1, Len(s)) : s \in {text} })

\* str.strip(): drop leading and trailing whitespace
Strip(text) ==
  The({ IF \A i \in 1..Len(s) : IsSpace(s[i]) THEN <<>>
        ELSE SubSeq(s,
               CHOOSE i \in 1..Len(s) :
                 ~IsSpace(s[i]) /\ \A j \in 1..(i - 1) : IsSpace(s[j]),
               CHOOSE i \in 1..Len(s) :
                 ~IsSpace(s[i]) /\ \A j \in (i + 1)..Len(s) : IsSpace(s[j]))
        : s \in {text} })

\* `sub in s`: sub occurs as a contiguous substring of s
Contains(text, part) ==
  \E s \in {text}, sub \in {part} :
     \E i \in 1..(Len(s) - Len(sub) + 1) :
        \A j \in 1..Len(sub) : s[i + j - 1] = sub[j]

\* start positions of the maximal runs of characters of s that are in class
RunStarts(s, class) ==
  { i \in 1..Len(s) : s[i] \in class /\ (i = 1 \/ s[i - 1] \notin class) }

\* the maximal run of characters of s in class that starts at i
RunAt(s, i, class) ==
  SubSeq(s, i, CHOOSE j \in i..Len(s) :
                  /\ \A k \in i..j : s[k] \in class
                  /\ (j = Len(s) \/ s[j + 1] \notin class))

\* the maximal runs of characters in class, each with its start position
Runs(text, class) ==
  The({ { <<i, RunAt(s, i, cls)>> : i \in RunStarts(s, cls) }
        : s \in {text}, cls \in {class} })

\* the characters of text that are not whitespace
NotSpace(text) == { text[i] : i \in 1..Len(text) } \ SpaceSet

\* len(text.split()): number of whitespace-separated words
WordCount(text) == Cardinality(Runs(text, NotSpace(text)))

\* set(text.split())
WordSet(text) == { m[2] : m \in Runs(text, NotSpace(text)) }

(***************************************************************************)
(* Fixed-point arithmetic                                                  *)
(***************************************************************************)
\* 1.0 in the unit of the sub-scores; divisible by 1..6 and by 100
Unit == 60 * 100

\* m / n as a sub-score (exact whenever n divides Unit)
Frac(m, n) == (m * Unit) \div n

\* n / d >= 0 rounded to the nearest integer, halves to the even one
Half(n, d) ==
  The({ IF 2 * r < d THEN q
        ELSE IF 2 * r > d THEN q + 1
        ELSE IF q % 2 = 0 THEN q ELSE q + 1 : q \in {n \div d}, r \in {n % d} })

\* round(x, 2) of Python 3 for x = n / d >= 0, in hundredths
Round2(n, d) == Half(n * 100, d)

\* the greatest common divisor of a set of naturals (0 if none is positive)
GcdOf(set) ==
  The({ IF S \subseteq {0} THEN 0
        ELSE The({ CHOOSE g \in D : \A h \in D : h <= g
                   : D \in { { g \in 1..(CHOOSE m \in S : \A k \in S : k <= m) :
                                 \A k \in S : k % g = 0 } } })
        : S \in {set} })

RECURSIVE SqrtIn(_, _, _)
\* the largest r in lo..hi with r * r <= x
SqrtIn(x, lo, hi) ==
  IF lo >= hi THEN lo
  ELSE The({ IF mid * mid <= x THEN SqrtIn(x, mid, hi)
             ELSE SqrtIn(x, lo, mid - 1) : mid \in {(lo + hi + 1) \div 2} })

\* floor of the square root, for 0 <= x < 2^31
ISqrt(x) == SqrtIn(x, 0, 46340)

RECURSIVE SumOver(_, _)
\* sum of f[t] over the elements t of S
SumOver(S, f) ==
  IF S = {} THEN 0
  ELSE The({ f[t] + SumOver(S \ {t}, f) : t \in {CHOOSE u \in S : TRUE} })

(***************************************************************************)
(* Keyword extraction and keyword score                                    *)
(***************************************************************************)
\* top_n default of _extract_keywords
TopN == 5

\* minimum length in the pattern \b[a-zA-Z]{4,}\b
MinKeywordLen == 4

\* re.findall(r"\b[a-zA-Z]{4,}\b", s), each match with its start position.
\* A match is a whole maximal run of \w characters (a \b on both sides) that
\* consists of letters only and has at least MinKeywordLen of them.
FindWords(s) ==
  { m \in Runs(s, WordChars) :
      Len(m[2]) >= MinKeywordLen /\ \A k \in 1..Len(m[2]) : IsAlpha(m[2][k]) }

\* word_freq of _extract_keywords: for every word its count and, for the
\* insertion order of the dict, the position of its first occurrence
WordFreq(found) ==
  { [word  |-> w,
     freq  |-> Cardinality({ m \in found : m[2] = w }),
     first |-> The({ m[1] : m \in { x \in found :
                     x[2] = w /\ \A y \in found : y[2] = w => x[1] <= y[1] } })]
    : w \in { m[2] : m \in found } }

\* a faulty variant of the sort: words of equal frequency come out with the
\* one seen last in front
TopWordsLastSeenFirst(word_freq, top_n) ==
  The({ [k \in 1..(IF n < top_n THEN n ELSE top_n) |->
          The({ e.word : e \in { x \in word_freq :
                  Cardinality({ y \in word_freq :
                     \/ y.freq > x.freq
                     \/ y.freq = x.freq /\ y.first > x.first }) = k - 1 } })]
        : n \in {Cardinality(word_freq)} })

\* sorted(word_freq.items(), key=lambda x: x[1], reverse=True)[:top_n]: the
\* sort is stable, so words of equal frequency stay in insertion order
TopWords(word_freq, top_n) ==
  The({ [k \in 1..(IF n < top_n THEN n ELSE top_n) |->
          The({ e.word : e \in { x \in word_freq :
                  Cardinality({ y \in word_freq :
                     \/ y.freq > x.freq
                     \/ y.freq = x.freq /\ y.first < x.first }) = k - 1 } })]
        : n \in {Cardinality(word_freq)} })

\* _extract_keywords
ExtractKeywords(text) ==
  The({ TopWords(word_freq, TopN) :
        word_freq \in { WordFreq(FindWords(Lower(text))) } })

\* dict.get(key, default)
DictGet(d, key, default) == IF key \in DOMAIN d THEN d[key] ELSE default

\* the list of keywords _calculate_keyword_score works with
KeywordsOf(question) ==
  The({ IF keywords = <<>> THEN ExtractKeywords(question.expected_answer)
        ELSE keywords
        : keywords \in { DictGet(question.grading_criteria, "keywords", <<>>) } })

\* a faulty variant of the matching: the keyword and the answer are compared
\* as written, without lower-casing
MatchedCaseSensitive(keywords, answer_text) ==
  Cardinality({ i \in 1..Len(keywords) : Contains(answer_text, keywords[i]) })

\* sum(1 for kw in keywords if kw.lower() in answer_lower)
Matched(keywords, answer_text) ==
  The({ Cardinality({ i \in 1..Len(keywords) :
                        \E kw \in { Lower(keywords[i]) } :
                           Contains(answer_lower, kw) })
        : answer_lower \in { Lower(answer_text) } })

\* _calculate_keyword_score
CalculateKeywordScore(question, answer_text) ==
  The({ IF keywords = <<>> THEN Unit \div 2
        ELSE Frac(Matched(keywords, answer_text), Len(keywords))
        : keywords \in { KeywordsOf(question) } })

(***************************************************************************)
(* Length score                                                            *)
(***************************************************************************)
ShortLen == 50

MediumLen == 100

LongLen == 200

\* a faulty variant of _calculate_length_score: the breakpoints belong to the
\* lower band
CalculateLengthScoreInclusive(text) ==
  The({ IF word_count <= ShortLen THEN (3 * Unit) \div 10
        ELSE IF word_count <= MediumLen THEN (6 * Unit) \div 10
        ELSE IF word_count <= LongLen THEN (9 * Unit) \div 10
        ELSE Unit
        : word_count \in { WordCount(text) } })

\* _calculate_length_score
CalculateLengthScore(text) ==
  The({ IF word_count < ShortLen THEN (3 * Unit) \div 10
        ELSE IF word_count < MediumLen THEN (6 * Unit) \div 10
        ELSE IF word_count < LongLen THEN (9 * Unit) \div 10
        ELSE Unit
        : word_count \in { WordCount(text) } })

(***************************************************************************)
(* The TF-IDF vectorizer: TfidfVectorizer(stop_words="english") with the   *)
(* library's defaults (lower-casing, tokens \b\w\w+\b, smoothed idf, l2)   *)
(***************************************************************************)
\* the members of the library's English stop list that the texts below use
StopWords ==
  { <<"t","h","e">>, <<"i","s">>, <<"o","f">>, <<"a","n","d">> }

\* minimum token length of the default token pattern \b\w\w+\b
MinTokenLen == 2

\* the analyzer: the tokens of a document, each with its position; stop
\* words and one-character tokens are dropped
Analyze(doc) ==
  { m \in Runs(Lower(doc), WordChars) :
      Len(m[2]) >= MinTokenLen /\ m[2] \notin StopWords }

\* the counting of CountVectorizer: the bag of terms of a document
TermCounts(doc) ==
  The({ [t \in { m[2] : m \in tokens } |->
           Cardinality({ m \in tokens : m[2] = t })] @@ <<>>
        : tokens \in { Analyze(doc) } })

\* idf = ln((1 + n) / (1 + df)) + 1, in tenths, for the n = 2 documents of a
\* call: 1.0 for a term of both documents, ln(3/2) + 1 = 1.405.. for a term of one
IdfShared == 10

IdfSingle == 14

Idf(df, n) == IF df >= n THEN IdfShared ELSE IdfSingle

\* the state of a vectorizer that was never fitted
Unfitted == [fitted |-> FALSE, vocabulary_ |-> {}, idf_ |-> <<>>]

\* CountVectorizer._count_vocab: the term counts of every document; the
\* vocabulary is the set of the terms counted
CountVocab(docs) == <<TermCounts(docs[1]), TermCounts(docs[2])>>

VocabularyOf(X) == UNION { DOMAIN X[i] : i \in DOMAIN X }

\* TfidfTransformer.fit: the idf of every term of the vocabulary
FitIdf(X, vocab) ==
  [t \in vocab |->
     Idf(Cardinality({ i \in DOMAIN X : t \in DOMAIN X[i] }), Len(X))] @@ <<>>

\* TfidfTransformer.transform: tf * idf per document (the l2 norm is applied
\* in Cosine, where it cancels)
TransformTfidf(X, vocab, idf) ==
  <<[t \in vocab |-> IF t \in DOMAIN X[1] THEN X[1][t] * idf[t] ELSE 0] @@ <<>>,
    [t \in vocab |-> IF t \in DOMAIN X[2] THEN X[2][t] * idf[t] ELSE 0] @@ <<>>>>

\* a faulty variant of fit_transform: a vectorizer that is already fitted is
\* not fitted again, the documents are transformed with what it has learnt
FitTransformReuse(vectorizer, docs) ==
  The({ IF vectorizer.fitted
          THEN [raised |-> FALSE, error |-> "", vectorizer |-> vectorizer,
                matrix |-> TransformTfidf(X, vectorizer.vocabulary_,
                                          vectorizer.idf_)]
        ELSE IF VocabularyOf(X) = {}
          THEN [raised |-> TRUE, error |-> "ValueError",
                vectorizer |-> vectorizer, matrix |-> <<>>]
          ELSE The({ [raised |-> FALSE, error |-> "",
                      vectorizer |-> [fitted |-> TRUE,
                                      vocabulary_ |-> VocabularyOf(X),
                                      idf_ |-> idf],
                      matrix |-> TransformTfidf(X, VocabularyOf(X), idf)]
                     : idf \in { FitIdf(X, VocabularyOf(X)) } })
        : X \in { CountVocab(docs) } })

\* vectorizer.fit_transform(docs): an empty vocabulary raises ValueError
\* before anything is stored; otherwise the vocabulary and the idf replace
\* the fitted state
FitTransform(vectorizer, docs) ==
  The({ IF VocabularyOf(X) = {}
          THEN [raised |-> TRUE, error |-> "ValueError",
                vectorizer |-> vectorizer, matrix |-> <<>>]
          ELSE The({ [raised |-> FALSE, error |-> "",
                      vectorizer |-> [fitted |-> TRUE,
                                      vocabulary_ |-> VocabularyOf(X),
                                      idf_ |-> idf],
                      matrix |-> TransformTfidf(X, VocabularyOf(X), idf)]
                     : idf \in { FitIdf(X, VocabularyOf(X)) } })
        : X \in { CountVocab(docs) } })

\* a vector divided by the gcd of its entries (same direction, smaller numbers)
Reduced(v) ==
  The({ IF g = 0 THEN v ELSE [t \in DOMAIN v |-> v[t] \div g] @@ <<>>
        : g \in { GcdOf({ v[t] : t \in DOMAIN v }) } })

\* dot / sqrt(p) rounded down to a multiple of 1 / Unit, for dot * dot <= p
Ratio(dot, p) ==
  IF p = 0 THEN 0
  ELSE IF p <= 200000 THEN (Unit * dot * 100) \div ISqrt(p * 10000)
  ELSE (Unit * dot) \div ISqrt(p)

\* cosine_similarity of two rows; a zero row has similarity 0 with everything
Cosine(x, y) ==
  The({ The({ Ratio(dot, na * nb)
              : dot \in { SumOver(DOMAIN a, [t \in DOMAIN a |-> a[t] * b[t]]) },
                na  \in { SumOver(DOMAIN a, [t \in DOMAIN a |-> a[t] * a[t]]) },
                nb  \in { SumOver(DOMAIN a, [t \in DOMAIN a |-> b[t] * b[t]]) } })
        : a \in { Reduced(x) }, b \in { Reduced(y) } })

\* a faulty variant of the fallback: the overlap is divided by the number of
\* distinct words of the submitted text
WordOverlapOfSubmitted(expected, submitted) ==
  The({ IF submitted_words = {} THEN 0
        ELSE Frac(Cardinality(expected_words \cap submitted_words),
                  Cardinality(submitted_words))
        : expected_words  \in { WordSet(Lower(expected)) },
          submitted_words \in { WordSet(Lower(submitted)) } })

\* the except branch of _calculate_similarity: simple word overlap
WordOverlap(expected, submitted) ==
  The({ IF expected_words = {} THEN 0
        ELSE Frac(Cardinality(expected_words \cap submitted_words),
                  Cardinality(expected_words))
        : expected_words  \in { WordSet(Lower(expected)) },
          submitted_words \in { WordSet(Lower(submitted)) } })

\* a faulty variant of _calculate_similarity: no early return for an empty
\* text, so that the vectorizer is fitted on every call
CalculateSimilarityUnguarded(vectorizer, expected, submitted) ==
  The({ IF ~ft.raised
          THEN [raised |-> FALSE, error |-> "",
                value |-> Cosine(ft.matrix[1], ft.matrix[2]),
                vectorizer |-> ft.vectorizer, path |-> "tfidf"]
          ELSE [raised |-> FALSE, error |-> "",
                value |-> WordOverlap(expected, submitted),
                vectorizer |-> ft.vectorizer, path |-> "fallback"]
        : ft \in { FitTransform(vectorizer, <<expected, submitted>>) } })

\* a faulty variant of _calculate_similarity: no except branch, so that the
\* exception of the vectorizer propagates
CalculateSimilarityNoFallback(vectorizer, expected, submitted) ==
  IF Strip(expected) = <<>> \/ Strip(submitted) = <<>>
    THEN [raised |-> FALSE, error |-> "", value |-> 0,
          vectorizer |-> vectorizer, path |-> "skipped"]
    ELSE The({ IF ~ft.raised
                 THEN [raised |-> FALSE, error |-> "",
                       value |-> Cosine(ft.matrix[1], ft.matrix[2]),
                       vectorizer |-> ft.vectorizer, path |-> "tfidf"]
                 ELSE [raised |-> TRUE, error |-> ft.error, value |-> 0,
                       vectorizer |-> ft.vectorizer, path |-> "raised"]
               : ft \in { FitTransform(vectorizer, <<expected, submitted>>) } })

\* _calculate_similarity: the similarity, the vectorizer it leaves behind and
\* the path taken ("skipped": the early return; "tfidf"; "fallback": the
\* except branch)
CalculateSimilarity(vectorizer, expected, submitted) ==
  IF Strip(expected) = <<>> \/ Strip(submitted) = <<>>
    THEN [raised |-> FALSE, error |-> "", value |-> 0,
          vectorizer |-> vectorizer, path |-> "skipped"]
    ELSE The({ IF ~ft.raised
                 THEN [raised |-> FALSE, error |-> "",
                       value |-> Cosine(ft.matrix[1], ft.matrix[2]),
                       vectorizer |-> ft.vectorizer, path |-> "tfidf"]
                 ELSE [raised |-> FALSE, error |-> "",
                       value |-> WordOverlap(expected, submitted),
                       vectorizer |-> ft.vectorizer, path |-> "fallback"]
               : ft \in { FitTransform(vectorizer, <<expected, submitted>>) } })

(***************************************************************************)
(* Feedback: a list of clauses joined by single spaces; a clause is a      *)
(* message with the text formatted into it ("{}"), if any                  *)
(***************************************************************************)
Clause(text, arg) == [text |-> text, arg |-> arg]

RECURSIVE Str(_)
\* str(n) for n >= 0
Str(n) ==
  LET d == <<"0","1","2","3","4","5","6","7","8","9">>[(n % 10) + 1]
  IN  IF n < 10 THEN <<d>> ELSE Append(Str(n \div 10), d)

\* a faulty variant of _generate_feedback: nothing is said about an answer
\* below the lowest band
GenerateFeedbackSilent(combined) ==
  IF combined >= 9 * Unit
    THEN <<Clause("Excellent answer! Well done.", <<>>)>>
  ELSE IF combined >= 7 * Unit
    THEN <<Clause("Good answer. You covered the main points.", <<>>)>>
  ELSE IF combined >= 5 * Unit
    THEN <<Clause("Partial credit. Your answer covers some key concepts but could be improved.", <<>>)>>
  ELSE <<>>

\* a faulty variant of _generate_feedback: the Good message is given from
\* 0.5 on
GenerateFeedbackGenerous(combined) ==
  IF combined >= 9 * Unit
    THEN <<Clause("Excellent answer! Well done.", <<>>)>>
  ELSE IF combined >= 5 * Unit
    THEN <<Clause("Good answer. You covered the main points.", <<>>)>>
  ELSE <<Clause("Your answer needs improvement. Please review the key concepts.", <<>>)>>

\* _generate_feedback (combined in tenths of the unit)
GenerateFeedback(combined) ==
  IF combined >= 9 * Unit
    THEN <<Clause("Excellent answer! Well done.", <<>>)>>
  ELSE IF combined >= 7 * Unit
    THEN <<Clause("Good answer. You covered the main points.", <<>>)>>
  ELSE IF combined >= 5 * Unit
    THEN <<Clause("Partial credit. Your answer covers some key concepts but could be improved.", <<>>)>>
  ELSE <<Clause("Your answer needs improvement. Please review the key concepts.", <<>>)>>

\* a faulty variant of the clauses: a keyword score of exactly 0.5 still
\* draws the key-concepts clause
DetailClausesInclusive(length, keyword, similarity, word_count) ==
  (IF 10 * length < 6 * Unit
     THEN <<Clause("Consider expanding your answer (current: {} words).",
                   Str(word_count))>>
     ELSE <<>>)
  \o (IF 10 * keyword <= 5 * Unit
        THEN <<Clause("Include more key concepts from the topic.", <<>>)>>
        ELSE <<>>)
  \o (IF 10 * similarity < 4 * Unit
        THEN <<Clause("Your answer could align better with the expected content.", <<>>)>>
        ELSE <<>>)

\* the clauses of _generate_detailed_feedback after the overall assessment
DetailClauses(length, keyword, similarity, word_count) ==
  (IF 10 * length < 6 * Unit
     THEN <<Clause("Consider expanding your answer (current: {} words).",
                   Str(word_count))>>
     ELSE <<>>)
  \o (IF 10 * keyword < 5 * Unit
        THEN <<Clause("Include more key concepts from the topic.", <<>>)>>
        ELSE <<>>)
  \o (IF 10 * similarity < 4 * Unit
        THEN <<Clause("Your answer could align better with the expected content.", <<>>)>>
        ELSE <<>>)

\* _generate_detailed_feedback (combined in tenths of the unit)
GenerateDetailedFeedback(combined, length, keyword, similarity, answer) ==
  (IF combined >= 8 * Unit
     THEN <<Clause("Excellent comprehensive answer!", <<>>)>>
   ELSE IF combined >= 6 * Unit
     THEN <<Clause("Good answer with room for improvement.", <<>>)>>
   ELSE <<Clause("Your answer needs significant improvement.", <<>>)>>)
  \o The({ DetailClauses(length, keyword, similarity, word_count)
           : word_count \in { WordCount(answer) } })

(***************************************************************************)
(* The grading strategies of MockGradingService.  Each returns the         *)
(* GradingResult (or the exception raised), the vectorizer it leaves       *)
(* behind and, in locals, the unrounded values of its local variables.     *)
(***************************************************************************)
\* a faulty variant of _normalize_text: the case is kept
NormalizeTextKeepCase(text) == Strip(text)

\* _normalize_text
NormalizeText(text) == Upper(Strip(text))

Returned(result, vectorizer, locals) ==
  [raised |-> FALSE, error |-> "", result |-> result,
   vectorizer |-> vectorizer, locals |-> locals]

Raised(error, vectorizer) ==
  [raised |-> TRUE, error |-> error, vectorizer |-> vectorizer]

\* the result dict of _grade_mcq
McqResult(question, expected, submitted, is_correct) ==
  [score |-> IF is_correct THEN question.marks ELSE 0,
   feedback |-> IF is_correct
                  THEN <<Clause("Correct answer!", <<>>)>>
                  ELSE <<Clause("Incorrect. Expected: {}",
                                question.expected_answer)>>,
   is_correct |-> is_correct,
   metadata |-> [grading_method |-> "exact_match",
                 expected |-> expected,
                 submitted |-> submitted]]

\* _grade_mcq
GradeMcq(vectorizer, question, answer_text) ==
  The({ Returned(McqResult(question, expected, submitted, expected = submitted),
                 vectorizer, [path |-> "none"])
        : expected  \in { NormalizeText(question.expected_answer) },
          submitted \in { NormalizeText(answer_text) } })

\* faulty variants of the combination of _grade_short_answer: weights that
\* sum to more than 1, and the two weights exchanged
ShortCombinedOverweight(keyword_score, similarity_score) ==
  (6 * keyword_score) + (6 * similarity_score)

ShortCombinedSwapped(keyword_score, similarity_score) ==
  (4 * keyword_score) + (6 * similarity_score)

\* combined_score of _grade_short_answer, in tenths of the unit:
\* 0.6 * keyword + 0.4 * similarity
ShortCombined(keyword_score, similarity_score) ==
  (6 * keyword_score) + (4 * similarity_score)

\* a faulty variant of the result dict of _grade_short_answer: an answer is
\* correct from a combined score of 0.65 on
ShortResultLenient(question, keyword_score, similarity_score, combined_score) ==
  [score |-> Half(question.marks * combined_score, 10 * Unit),
   feedback |-> GenerateFeedback(combined_score),
   is_correct |-> 2 * combined_score >= 13 * Unit,
   metadata |-> [grading_method |-> "keyword_similarity",
                 keyword_score |-> Round2(keyword_score, Unit),
                 similarity_score |-> Round2(similarity_score, Unit),
                 combined_score |-> Round2(combined_score, 10 * Unit)]]

\* the result dict of _grade_short_answer
ShortResult(question, keyword_score, similarity_score, combined_score) ==
  [score |-> Half(question.marks * combined_score, 10 * Unit),
   feedback |-> GenerateFeedback(combined_score),
   is_correct |-> combined_score >= 7 * Unit,
   metadata |-> [grading_method |-> "keyword_similarity",
                 keyword_score |-> Round2(keyword_score, Unit),
                 similarity_score |-> Round2(similarity_score, Unit),
                 combined_score |-> Round2(combined_score, 10 * Unit)]]

\* _grade_short_answer, given what _calculate_similarity came back with
ShortGraded(question, answer_text, similarity) ==
  The({ IF sim.raised THEN Raised(sim.error, sim.vectorizer)
        ELSE The({ Returned(
                     ShortResult(question, keyword_score, sim.value, combined_score),
                     sim.vectorizer,
                     [path |-> sim.path, keyword_score |-> keyword_score,
                      similarity_score |-> sim.value,
                      combined_score |-> combined_score])
                   : combined_score \in { ShortCombined(keyword_score, sim.value) } })
        : keyword_score \in { CalculateKeywordScore(question, answer_text) },
          sim \in { similarity } })

\* _grade_short_answer
GradeShortAnswer(vectorizer, question, answer_text) ==
  ShortGraded(question, answer_text,
              CalculateSimilarity(vectorizer, question.expected_answer,
                                  answer_text))

\* a faulty variant of the combination of _grade_long_answer: the weights of
\* length and similarity exchanged
LongCombinedSwapped(length_score, keyword_score, similarity_score) ==
  (4 * length_score) + (3 * keyword_score) + (3 * similarity_score)

\* combined_score of _grade_long_answer, in tenths of the unit:
\* 0.3 * length + 0.3 * keyword + 0.4 * similarity
LongCombined(length_score, keyword_score, similarity_score) ==
  (3 * length_score) + (3 * keyword_score) + (4 * similarity_score)

\* the result dict of _grade_long_answer
LongResult(question, answer_text, length_score, keyword_score, similarity_score, combined_score) ==
  [score |-> Half(question.marks * combined_score, 10 * Unit),
   feedback |-> GenerateDetailedFeedback(combined_score, length_score,
                   keyword_score, similarity_score, answer_text),
   is_correct |-> combined_score >= 6 * Unit,
   metadata |-> [grading_method |-> "comprehensive",
                 length_score |-> Round2(length_score, Unit),
                 keyword_score |-> Round2(keyword_score, Unit),
                 similarity_score |-> Round2(similarity_score, Unit),
                 combined_score |-> Round2(combined_score, 10 * Unit),
                 word_count |-> WordCount(answer_text)]]

\* _grade_long_answer, given what _calculate_similarity came back with
LongGraded(question, answer_text, similarity) ==
  The({ IF sim.raised THEN Raised(sim.error, sim.vectorizer)
        ELSE The({ Returned(
                     LongResult(question, answer_text, length_score,
                                keyword_score, sim.value, combined_score),
                     sim.vectorizer,
                     [path |-> sim.path, length_score |-> length_score,
                      keyword_score |-> keyword_score,
                      similarity_score |-> sim.value,
                      combined_score |-> combined_score])
                   : combined_score \in { LongCombined(length_score, keyword_score,
                                                        sim.value) } })
        : length_score \in { CalculateLengthScore(answer_text) },
          keyword_score \in { CalculateKeywordScore(question, answer_text) },
          sim \in { similarity } })

\* _grade_long_answer
GradeLongAnswer(vectorizer, question, answer_text) ==
  LongGraded(question, answer_text,
             CalculateSimilarity(vectorizer, question.expected_answer,
                                 answer_text))

\* MockGradingService.grade_answer
MockGradeAnswer(vectorizer, question, answer_text) ==
  IF question.question_type = "MCQ" \/ question.question_type = "TRUE_FALSE"
    THEN GradeMcq(vectorizer, question, answer_text)
  ELSE IF question.question_type = "SHORT"
    THEN GradeShortAnswer(vectorizer, question, answer_text)
  ELSE GradeLongAnswer(vectorizer, question, answer_text)

(***************************************************************************)
(* Inputs: the questions and the answer texts the grader is called with    *)
(***************************************************************************)
\* surrounding whitespace added to an answer: up to MaxPad blanks on each side
MaxPad == 1

TxtEmpty == <<>>

TxtB == <<"B">>

TxtData == <<"d","a","t","a">>

TxtBase == <<"b","a","s","e">>

TxtKey1 == <<"k","e","y","1">>

TxtThe == <<"t","h","e">>

TxtBeta == <<"b","e","t","a">>

TxtAlfa == <<"a","l","f","a">>

TxtGama == <<"g","a","m","a">>

TxtZeta == <<"z","e","t","a">>

Blank == <<" ">>

\* the words of s, separated by single blanks
RECURSIVE Words(_)
Words(s) ==
  IF Len(s) = 1 THEN s[1] ELSE s[1] \o Blank \o Words(Tail(s))

\* w repeated n times
Rep(w, n) == [i \in 1..(n * Len(w)) |-> w[((i - 1) % Len(w)) + 1]]

\* Question rows: question_type, marks (in cents), expected_answer and
\* grading_criteria (a dict: <<>> is {}).  "OTHER" is a type outside
\* QUESTION_TYPES, which the model field does not reject on save.
Questions ==
  { [question_type |-> "MCQ", marks |-> 1000,
     expected_answer |-> TxtB, grading_criteria |-> <<>>],
    [question_type |-> "TRUE_FALSE", marks |-> 250,
     expected_answer |-> <<"b"," ">>, grading_criteria |-> <<>>],
    [question_type |-> "SHORT", marks |-> 1000,
     expected_answer |-> TxtThe \o Blank \o TxtData \o Blank \o TxtBase,
     grading_criteria |->
       [keywords |-> << <<"D","a","t","a">>, TxtBase, TxtKey1 >>]],
    [question_type |-> "SHORT", marks |-> 333,
     expected_answer |-> TxtBase \o Blank \o TxtData \o Blank \o TxtData,
     grading_criteria |-> <<>>],
    [question_type |-> "SHORT", marks |-> 1000,
     expected_answer |-> TxtThe \o Blank \o TxtB,
     grading_criteria |-> <<>>],
    [question_type |-> "SHORT", marks |-> 0,
     expected_answer |-> TxtData,
     grading_criteria |-> [keywords |-> <<>>]],
    [question_type |-> "SHORT", marks |-> 1000,
     expected_answer |-> Blank,
     grading_criteria |-> [keywords |-> << TxtData >>]],
    [question_type |-> "SHORT", marks |-> 500,
     expected_answer |-> TxtData \o Blank \o TxtBase,
     grading_criteria |-> [keywords |-> << TxtBase, TxtEmpty >>]],
    [question_type |-> "LONG", marks |-> 2000,
     expected_answer |-> TxtData,
     grading_criteria |-> [keywords |-> << TxtData >>]],
    [question_type |-> "ESSAY", marks |-> 3000,
     expected_answer |-> TxtData \o Blank \o TxtBase \o Blank \o TxtKey1,
     grading_criteria |-> <<>>],
    [question_type |-> "OTHER", marks |-> 1000,
     expected_answer |-> TxtData,
     grading_criteria |-> <<>>],
    [question_type |-> "SHORT", marks |-> 1000,
     expected_answer |->
       Words(<< TxtThe, TxtBase, <<"D","a","t","a">>, TxtBeta, TxtKey1,
                TxtData, TxtAlfa, TxtGama, TxtBeta, TxtZeta, TxtData >>),
     grading_criteria |-> <<>>],
    [question_type |-> "SHORT", marks |-> 1000,
     expected_answer |->
       Words(<< TxtData, <<"a","a">>, <<"a","a">>, <<"b","b">>, <<"b","b">> >>),
     grading_criteria |-> [keywords |-> << TxtData >>]] }

\* the bodies of the short answer texts
Bodies ==
  { TxtEmpty,
    TxtB,
    <<"b">>,
    <<"A">>,
    TxtThe,
    TxtData,
    <<"D","A","T","A">> \o Blank \o TxtBase,
    TxtThe \o Blank \o TxtData \o Blank \o TxtBase,
    TxtData \o TxtBase,
    TxtThe \o Blank \o <<"b">>,
    TxtBase \o <<"\t">> \o TxtData \o <<"\n">> \o TxtKey1,
    TxtData \o Blank \o TxtData \o Blank \o TxtBase }

\* the word counts of the long answers: around every breakpoint of the
\* length score
LongCounts == { ShortLen - 1, ShortLen, MediumLen - 1, MediumLen,
                LongLen - 1, LongLen, LongLen + 50 }

\* the short answers: a body with blanks around it
ShortAnswers ==
  { Rep(Blank, l) \o b \o Rep(Blank, r) :
      l \in 0..MaxPad, r \in 0..MaxPad, b \in Bodies }

\* the long answers: one word, repeated
LongAnswers ==
  { Rep(TxtData \o Blank, n) : n \in LongCounts }
    \cup { Rep(w \o Blank, LongLen) : w \in {TxtBase, TxtKey1} }

\* the answer texts a question is graded with: the long answers go to the
\* questions that the comprehensive strategy grades
AnswersFor(question) ==
  IF question.question_type \in {"MCQ", "TRUE_FALSE", "SHORT"}
    THEN ShortAnswers
    ELSE ShortAnswers \cup LongAnswers

(***************************************************************************)
(* The state machine: one MockGradingService instance, called repeatedly   *)
(***************************************************************************)
VARIABLES
  vectorizer,   \* self.vectorizer: the fitted state of the TfidfVectorizer
  call,         \* the grade_answer call that last completed and what it
                \* returned or raised, until the caller has taken it
  service,      \* the grading service that the factory or a constructor
                \* returned last
  threads,      \* the grade_answer calls that run concurrently on one grader
  db,           \* the committed rows of the submissions and answers tables
  requests      \* the create requests and how far each has got

vars == <<vectorizer, call, service, threads, db, requests>>

\* the variables of the request handling, which the grader alone leaves as
\* they are
NoService == [class |-> "none"]

NoThreads == <<>>

NoRows == [submissions |-> {}, answers |-> {}]

NoRequests == <<>>

Idle == [outcome |-> "idle"]

\* MockGradingService.__init__
Init ==
  /\ vectorizer = Unfitted
  /\ call = Idle
  /\ service = NoService
  /\ threads = NoThreads
  /\ db = NoRows
  /\ requests = NoRequests

\* grading_service.grade_answer(question, answer_text)
GradeAnswer(question, answer_text) ==
  /\ call.outcome = "idle"
  /\ \E r \in { MockGradeAnswer(vectorizer, question, answer_text) } :
         /\ vectorizer' = r.vectorizer
         /\ call' =
              IF r.raised
                THEN [outcome |-> "raised", question |-> question,
                      answer_text |-> answer_text, error |-> r.error]
                ELSE [outcome |-> "returned", question |-> question,
                      answer_text |-> answer_text, result |-> r.result,
                      locals |-> r.locals]
  /\ UNCHANGED <<service, threads, db, requests>>

\* the caller takes the result (or the exception); the grader keeps nothing
\* of the call but the vectorizer's fitted state
TakeResult ==
  /\ call.outcome # "idle"
  /\ call' = Idle
  /\ UNCHANGED <<vectorizer, service, threads, db, requests>>

Next ==
  \/ \E question \in Questions :
       \E answer_text \in AnswersFor(question) :
          GradeAnswer(question, answer_text)
  \/ TakeResult

Spec == Init /\ [][Next]_vars

(***************************************************************************)
(* Properties of the scoring engine                                        *)
(***************************************************************************)
\* Question.QUESTION_TYPES: the supported question types
QuestionTypes == {"MCQ", "TRUE_FALSE", "SHORT", "LONG", "ESSAY"}

\* the last call returned a GradingResult that the caller has not taken yet
HasReturned == call.outcome = "returned"

\* the grading_method recorded in the metadata of the returned result
MethodUsed == call.result.metadata.grading_method

\* C1: every result that grade_answer returns, whichever of the three grading
\* methods produced it, has a score of at least 0 and at most the marks of
\* the question.
C1_ScoreWithinMarks ==
  HasReturned =>
    /\ call.result.score >= 0
    /\ call.result.score <= call.question.marks

\* a keyword-and-similarity result strictly between 0 and the marks, not a
\* whole number of marks' tenths
C1_PartialScoreReturned ==
  /\ HasReturned
  /\ MethodUsed = "keyword_similarity"
  /\ call.result.score > 0
  /\ call.result.score < call.question.marks
  /\ call.locals.similarity_score > 0
  /\ call.locals.keyword_score > 0

\* C2 (as stated): the grading method is determined by the question type --
\* exact match for MCQ and TRUE_FALSE, keyword and similarity for SHORT,
\* comprehensive for LONG and ESSAY -- and no other pairing of a type with a
\* method occurs.
C2_NoOtherPairing ==
  HasReturned =>
    /\ MethodUsed = "exact_match"
         <=> call.question.question_type \in {"MCQ", "TRUE_FALSE"}
    /\ MethodUsed = "keyword_similarity"
         <=> call.question.question_type = "SHORT"
    /\ MethodUsed = "comprehensive"
         <=> call.question.question_type \in {"LONG", "ESSAY"}

\* C3 (as stated): a call for a question whose type is none of the five
\* supported types ends with a ConfigurationError and no result.
C3_UnknownTypeRaises ==
  (call.outcome # "idle" /\ call.question.question_type \notin QuestionTypes)
    => (call.outcome = "raised" /\ call.error = "ConfigurationError")

\* text consists of whitespace only (or is empty)
IsBlankText(text) == \A i \in 1..Len(text) : IsSpace(text[i])

\* core is text without its leading and trailing whitespace
IsTrimOf(core, text) ==
  \E l \in 0..Len(text), r \in 0..Len(text) :
     /\ l + r <= Len(text)
     /\ IsBlankText(SubSeq(text, 1, l))
     /\ IsBlankText(SubSeq(text, Len(text) - r + 1, Len(text)))
     /\ core = SubSeq(text, l + 1, Len(text) - r)
     /\ (core = <<>> \/ (~IsSpace(core[1]) /\ ~IsSpace(core[Len(core)])))

\* a and b are equal once trimmed, up to the case of their letters
SameTrimmedIgnoringCase(a, b) ==
  \E ca \in { SubSeq(a, i, j) : i \in 1..(Len(a) + 1), j \in 0..Len(a) },
     cb \in { SubSeq(b, i, j) : i \in 1..(Len(b) + 1), j \in 0..Len(b) } :
       /\ IsTrimOf(ca, a)
       /\ IsTrimOf(cb, b)
       /\ Len(ca) = Len(cb)
       /\ \A i \in 1..Len(ca) : UpperChar(ca[i]) = UpperChar(cb[i])

\* C4: for an MCQ or TRUE_FALSE question the answer is correct exactly when
\* the trimmed, upper-cased expected answer equals the trimmed, upper-cased
\* submitted answer; the score is the marks when correct and 0 otherwise.
C4_McqExactMatch ==
  (HasReturned /\ call.question.question_type \in {"MCQ", "TRUE_FALSE"}) =>
    /\ call.result.is_correct
         <=> SameTrimmedIgnoringCase(call.question.expected_answer,
                                     call.answer_text)
    /\ call.result.score =
         IF call.result.is_correct THEN call.question.marks ELSE 0

\* a TRUE_FALSE answer that differs from the expected one in case and in
\* whitespace is marked correct with full marks
C4_CorrectDespiteCaseAndBlanks ==
  /\ HasReturned
  /\ call.question.question_type = "TRUE_FALSE"
  /\ call.answer_text # call.question.expected_answer
  /\ Strip(call.answer_text) # Strip(call.question.expected_answer)
  /\ call.result.is_correct
  /\ call.result.score = call.question.marks
  /\ call.result.score > 0

\* score is n / d rounded to the nearest integer, a tie going to the even one
IsRounded(score, n, d) ==
  \E diff \in { IF score * d >= n THEN (score * d) - n ELSE n - (score * d) } :
     /\ 2 * diff <= d
     /\ 2 * diff = d => score % 2 = 0

\* C5: for a SHORT question the combined score is 0.6 times the keyword score
\* plus 0.4 times the similarity score, the score is the marks times the
\* combined score rounded to two decimals, and the answer is correct exactly
\* when the combined score is at least 0.7.
C5_ShortCombination ==
  (HasReturned /\ call.question.question_type = "SHORT") =>
    \E combined \in { (6 * call.locals.keyword_score)
                        + (4 * call.locals.similarity_score) } :
       /\ MethodUsed = "keyword_similarity"
       /\ call.locals.combined_score = combined
       /\ IsRounded(call.result.score, call.question.marks * combined, 10 * Unit)
       /\ call.result.is_correct <=> combined >= 7 * Unit

\* a SHORT answer whose combined score is exactly 0.7 (keyword score 0.5,
\* similarity 1.0) is correct and gets 0.7 of the marks
C5_CorrectAtThreshold ==
  /\ HasReturned
  /\ call.question.question_type = "SHORT"
  /\ call.locals.keyword_score = Unit \div 2
  /\ call.locals.similarity_score = Unit
  /\ call.locals.combined_score = 7 * Unit
  /\ call.result.is_correct
  /\ call.question.marks > 0
  /\ 10 * call.result.score = 7 * call.question.marks

\* C6: for a LONG or ESSAY question the combined score is 0.3 times the
\* length score plus 0.3 times the keyword score plus 0.4 times the
\* similarity score, the score is the marks times the combined score rounded
\* to two decimals, and the answer is correct exactly when the combined score
\* is at least 0.6; an answer of 200 words or more with keyword score 1 and
\* similarity 1 gets exactly the marks.
C6_LongCombination ==
  (HasReturned /\ call.question.question_type \in {"LONG", "ESSAY"}) =>
    \E combined \in { (3 * call.locals.length_score)
                        + (3 * call.locals.keyword_score)
                        + (4 * call.locals.similarity_score) } :
       /\ MethodUsed = "comprehensive"
       /\ call.locals.combined_score = combined
       /\ IsRounded(call.result.score, call.question.marks * combined, 10 * Unit)
       /\ call.result.is_correct <=> combined >= 6 * Unit
       /\ ( /\ call.result.metadata.word_count >= LongLen
            /\ call.locals.keyword_score = Unit
            /\ call.locals.similarity_score = Unit )
          => call.result.score = call.question.marks

\* a LONG answer of at least 200 words with keyword score 1 and similarity 1
\* gets the full marks
C6_FullMarksForLongAnswer ==
  /\ HasReturned
  /\ call.question.question_type = "LONG"
  /\ call.result.metadata.word_count >= LongLen
  /\ call.locals.keyword_score = Unit
  /\ call.locals.similarity_score = Unit
  /\ call.result.score = call.question.marks
  /\ call.question.marks > 0

\* kw occurs in text as a contiguous substring, up to the case of the letters
OccursIgnoringCase(kw, text) ==
  \E i \in 0..(Len(text) - Len(kw)) :
     \A j \in 1..Len(kw) : LowerChar(text[i + j]) = LowerChar(kw[j])

\* the keywords a question is scored with: those of grading_criteria if it
\* has any, else those extracted from the expected answer
ScoredKeywords ==
  IF /\ "keywords" \in DOMAIN call.question.grading_criteria
     /\ call.question.grading_criteria.keywords # <<>>
    THEN call.question.grading_criteria.keywords
    ELSE ExtractKeywords(call.question.expected_answer)

\* the positions of the scored keywords that occur in the answer
KeywordHits ==
  { i \in 1..Len(ScoredKeywords) :
      OccursIgnoringCase(ScoredKeywords[i], call.answer_text) }

\* C7: the keyword score uses the keywords of grading_criteria when that
\* list is not empty and the keywords extracted from the expected answer
\* otherwise; it is 0.5 when there are no keywords, else the number of
\* keywords found in the answer as case-insensitive substrings divided by
\* the number of keywords; it lies between 0 and 1.
C7_KeywordScore ==
  (HasReturned /\ MethodUsed # "exact_match") =>
    /\ call.locals.keyword_score \in 0..Unit
    /\ IF ScoredKeywords = <<>>
         THEN 2 * call.locals.keyword_score = Unit
         ELSE call.locals.keyword_score * Len(ScoredKeywords)
                = Cardinality(KeywordHits) * Unit

\* two of the three keywords of grading_criteria are found, one of them
\* written in another case than in the answer
C7_TwoOfThreeKeywords ==
  /\ HasReturned
  /\ MethodUsed = "keyword_similarity"
  /\ "keywords" \in DOMAIN call.question.grading_criteria
  /\ Len(ScoredKeywords) = 3
  /\ Cardinality(KeywordHits) = 2
  /\ 3 * call.locals.keyword_score = 2 * Unit
  /\ \E i \in KeywordHits : ~Contains(call.answer_text, ScoredKeywords[i])

\* C8: when the expected answer or the submitted answer is empty or consists
\* of whitespace only, the similarity is exactly 0 and the call leaves the
\* vectorizer as it found it (the vectorizer is not invoked).
C8_BlankTextSkipsVectorizer ==
  [][ ( /\ call.outcome = "idle"
        /\ call'.outcome = "returned"
        /\ call'.result.metadata.grading_method # "exact_match"
        /\ \/ IsBlankText(call'.question.expected_answer)
           \/ IsBlankText(call'.answer_text) )
      => ( /\ call'.locals.similarity_score = 0
           /\ vectorizer' = vectorizer ) ]_vars

\* a whitespace-only answer to a question with a non-blank expected answer was
\* given similarity 0 by a grader whose vectorizer had been fitted before
C8_BlankAnswerAfterFit ==
  /\ HasReturned
  /\ call.question.question_type \in QuestionTypes
  /\ MethodUsed # "exact_match"
  /\ call.answer_text # <<>>
  /\ IsBlankText(call.answer_text)
  /\ ~IsBlankText(call.question.expected_answer)
  /\ call.locals.path = "skipped"
  /\ call.locals.similarity_score = 0
  /\ vectorizer.fitted

\* the vectorizer fails on the pair of texts: both are non-blank, and neither
\* holds a term (stop words and one-character tokens are no terms)
VectorizationFails ==
  /\ ~IsBlankText(call.question.expected_answer)
  /\ ~IsBlankText(call.answer_text)
  /\ Analyze(call.question.expected_answer) = {}
  /\ Analyze(call.answer_text) = {}

\* C9: when the vectorizer fails inside the similarity calculation, no
\* exception reaches the caller of grade_answer, and the similarity is the
\* number of lower-cased whitespace-separated words common to both texts
\* divided by the number of distinct words of the expected text (0 when the
\* expected text has no words).
C9_FallbackOnVectorizerFailure ==
  ( /\ call.outcome # "idle"
    /\ call.question.question_type \notin {"MCQ", "TRUE_FALSE"}
    /\ VectorizationFails ) =>
    /\ HasReturned
    /\ \E expected_words  \in { WordSet(Lower(call.question.expected_answer)) },
          submitted_words \in { WordSet(Lower(call.answer_text)) } :
          IF expected_words = {}
            THEN call.locals.similarity_score = 0
            ELSE call.locals.similarity_score * Cardinality(expected_words)
                   = Cardinality(expected_words \cap submitted_words) * Unit

\* the fallback gave a similarity strictly between 0 and 1: one of the two
\* words of the expected answer is in the submitted answer
C9_HalfOverlapByFallback ==
  /\ HasReturned
  /\ VectorizationFails
  /\ call.locals.path = "fallback"
  /\ 2 * call.locals.similarity_score = Unit
  /\ ~vectorizer.fitted

BlankKeywordHits ==
  { i \in 1..Len(ScoredKeywords) :
      /\ IsBlankText(ScoredKeywords[i])
      /\ OccursIgnoringCase(ScoredKeywords[i], call.answer_text) }

C11_SameResultAsFreshGrader ==
  HasReturned =>
    \E fresh \in { MockGradeAnswer(Unfitted, call.question, call.answer_text) } :
       /\ ~fresh.raised
       /\ call.result = fresh.result

\* a call that went through the fallback on a grader whose vectorizer earlier
\* calls had fitted
C11_FallbackOnFittedGrader ==
  /\ HasReturned
  /\ call.question.question_type \in QuestionTypes
  /\ call.locals.path = "fallback"
  /\ call.locals.similarity_score > 0
  /\ vectorizer.fitted
  /\ vectorizer.vocabulary_ # {}

\* the feedback string is not empty: it has a clause whose message is not empty
IsNonEmptyFeedback(feedback) ==
  /\ Len(feedback) >= 1
  /\ \E i \in 1..Len(feedback) : feedback[i].text # ""

\* C15: every result returned by grade_answer, whichever grading method
\* produced it, has a feedback string that is not empty and an is_correct
\* that is a boolean (never null).
C15_FeedbackAndVerdictDefined ==
  HasReturned =>
    /\ IsNonEmptyFeedback(call.result.feedback)
    /\ call.result.is_correct \in BOOLEAN

\* a keyword-and-similarity result of the lowest band (score 0, not correct)
\* still carries feedback
C15_FeedbackForZeroScore ==
  /\ HasReturned
  /\ MethodUsed = "keyword_similarity"
  /\ call.locals.combined_score = 0
  /\ call.result.is_correct = FALSE
  /\ call.question.marks > 0
  /\ Len(call.result.feedback) = 1

\* the number of whitespace-separated words of text: the positions where a
\* word starts
WordStarts(text) ==
  { i \in 1..Len(text) :
      ~IsSpace(text[i]) /\ (i = 1 \/ IsSpace(text[i - 1])) }

\* C16: the length score is determined by the number w of whitespace-separated
\* words of the answer: 0.3 for w < 50, 0.6 for 50 <= w < 100, 0.9 for
\* 100 <= w < 200 and 1.0 for w >= 200.
C16_LengthScoreBands ==
  (HasReturned /\ MethodUsed = "comprehensive") =>
    \E w \in { Cardinality(WordStarts(call.answer_text)) } :
       /\ call.result.metadata.word_count = w
       /\ w < 50 => 10 * call.locals.length_score = 3 * Unit
       /\ (50 <= w /\ w < 100) => 10 * call.locals.length_score = 6 * Unit
       /\ (100 <= w /\ w < 200) => 10 * call.locals.length_score = 9 * Unit
       /\ w >= 200 => call.locals.length_score = Unit

\* an answer of exactly 100 words is in the 0.9 band
C16_HundredWords ==
  /\ HasReturned
  /\ call.question.question_type \in {"LONG", "ESSAY"}
  /\ Cardinality(WordStarts(call.answer_text)) = 100
  /\ 10 * call.locals.length_score = 9 * Unit

(***************************************************************************)
(* The grading services and their factory                                  *)
(***************************************************************************)
\* an optional value: None, or Some(x)
None == <<>>

Some(x) == <<x>>

\* MockGradingService(): the instance (its vectorizer is the variable
\* vectorizer, unfitted after construction)
NewMockGradingService ==
  [raised |-> FALSE, class |-> "MockGradingService"]

\* LLMGradingService(api_key, model)
NewLLMGradingService(api_key, model) ==
  [raised |-> FALSE, class |-> "LLMGradingService",
   api_key |-> api_key, model |-> model]

\* a faulty variant of the factory: an unrecognised service type is refused
GetGradingServiceStrict(service_type) ==
  IF service_type = "mock" THEN NewMockGradingService
  ELSE IF service_type = "llm" THEN NewLLMGradingService(None, "gpt-4")
  ELSE [raised |-> TRUE, class |-> "none", error |-> "ValueError"]

\* get_grading_service(service_type)
GetGradingServiceOf(service_type) ==
  IF service_type = "mock" THEN NewMockGradingService
  ELSE IF service_type = "llm" THEN NewLLMGradingService(None, "gpt-4")
  ELSE NewMockGradingService

\* a faulty variant of LLMGradingService.grade_answer: a result with no marks
\* instead of the exception
LLMGradeAnswerZero(vec, question, answer_text) ==
  Returned(McqResult(question, <<>>, <<>>, FALSE), vec, [path |-> "none"])

\* LLMGradingService.grade_answer
LLMGradeAnswer(vec, question, answer_text) ==
  Raised("NotImplementedError", vec)

\* the arguments get_grading_service is called with: <<>> is the call
\* without an argument, which takes the default "mock"
FactoryArgs ==
  { <<>>, <<"mock">>, <<"llm">>, <<"">>, <<"MOCK">>, <<"LLM ">>, <<"openai">> }

\* the arguments LLMGradingService is constructed with
LLMArgs ==
  { [api_key |-> None, model |-> "gpt-4"],
    [api_key |-> Some("sk-1"), model |-> "gpt-4"],
    [api_key |-> None, model |-> ""],
    [api_key |-> Some(""), model |-> "other"] }

\* the answer texts the services are called with
ServiceAnswers == { TxtEmpty, Blank, TxtB, TxtData }

\* service = get_grading_service(*args)
GetGradingService(args) ==
  /\ call.outcome = "idle"
  /\ \E r \in { GetGradingServiceOf(IF args = <<>> THEN "mock" ELSE args[1]) } :
        service' = [made_by |-> "get_grading_service", args |-> args,
                    instance |-> r]
  /\ vectorizer' = Unfitted
  /\ UNCHANGED <<call, threads, db, requests>>

\* service = LLMGradingService(api_key, model)
ConstructLLM(args) ==
  /\ call.outcome = "idle"
  /\ service' = [made_by |-> "LLMGradingService", args |-> args,
                 instance |-> NewLLMGradingService(args.api_key, args.model)]
  /\ vectorizer' = Unfitted
  /\ UNCHANGED <<call, threads, db, requests>>

\* service.grade_answer(question, answer_text)
ServiceGradeAnswer(question, answer_text) ==
  /\ call.outcome = "idle"
  /\ service # NoService
  /\ ~service.instance.raised
  /\ \E r \in { IF service.instance.class = "LLMGradingService"
                  THEN LLMGradeAnswer(vectorizer, question, answer_text)
                  ELSE MockGradeAnswer(vectorizer, question, answer_text) } :
         /\ vectorizer' = r.vectorizer
         /\ call' =
              IF r.raised
                THEN [outcome |-> "raised", question |-> question,
                      answer_text |-> answer_text, error |-> r.error]
                ELSE [outcome |-> "returned", question |-> question,
                      answer_text |-> answer_text, result |-> r.result,
                      locals |-> r.locals]
  /\ UNCHANGED <<service, threads, db, requests>>

FactoryNext ==
  \/ \E args \in FactoryArgs : GetGradingService(args)
  \/ \E args \in LLMArgs : ConstructLLM(args)
  \/ \E question \in Questions :
       \E answer_text \in ServiceAnswers :
          ServiceGradeAnswer(question, answer_text)
  \/ TakeResult

FactorySpec == Init /\ [][FactoryNext]_vars

\* the factory was the last to make a service, with these arguments
MadeByFactory(args) ==
  /\ service # NoService
  /\ service.made_by = "get_grading_service"
  /\ service.args = args

\* C13: get_grading_service returns a mock grader for "mock", an LLM grader
\* for "llm" and a mock grader for every other string and for no argument;
\* it never raises, and what it returns is always a grading service.
C13_FactoryFallsBackToMock ==
  \A args \in FactoryArgs :
     MadeByFactory(args) =>
       /\ ~service.instance.raised
       /\ service.instance.class \in {"MockGradingService", "LLMGradingService"}
       /\ service.instance.class = "LLMGradingService" <=> args = <<"llm">>

\* the factory was asked for a service type it does not know and returned a
\* mock grader, which has graded an answer
C13_UnknownTypeGivesMock ==
  /\ MadeByFactory(<<"openai">>)
  /\ service.instance.class = "MockGradingService"
  /\ HasReturned
  /\ MethodUsed = "keyword_similarity"

\* C14: constructing the LLM grader always succeeds, with or without an API
\* key and a model name, and every call of its grade_answer fails with
\* NotImplementedError and returns no result.
C14_LLMGraderAlwaysRaises ==
  (service # NoService /\ service.instance.class = "LLMGradingService") =>
    /\ ~service.instance.raised
    /\ call.outcome # "idle" =>
         (call.outcome = "raised" /\ call.error = "NotImplementedError")

\* an LLM grader constructed without an API key was called and raised
C14_LLMCallRaised ==
  /\ service # NoService
  /\ service.made_by = "LLMGradingService"
  /\ service.instance.class = "LLMGradingService"
  /\ service.instance.api_key = None
  /\ call.outcome = "raised"
  /\ call.error = "NotImplementedError"
  /\ call.question.question_type = "MCQ"


(***************************************************************************)
(* Concurrent calls: threads that call grade_answer on one grader, and so  *)
(* on one self.vectorizer.  A thread is interleaved with the others at     *)
(* every read and write of an attribute of the shared vectorizer.          *)
(***************************************************************************)
\* the number of threads
NumThreads == 2

Threads == 1..NumThreads

\* the characters of a term, in the order of their code points
SortChars ==
  <<"0","1","2","3","4","5","6","7","8","9","_",
    "a","b","c","d","e","f","g","h","i","j","k","l","m",
    "n","o","p","q","r","s","t","u","v","w","x","y","z">>

CharCode(c) == CHOOSE i \in DOMAIN SortChars : SortChars[i] = c

\* s < t for two terms
RECURSIVE StrLess(_, _)
StrLess(s, t) ==
  IF t = <<>> THEN FALSE
  ELSE IF s = <<>> THEN TRUE
  ELSE IF Head(s) = Head(t) THEN StrLess(Tail(s), Tail(t))
  ELSE CharCode(Head(s)) < CharCode(Head(t))

\* the column of a term: its place in the sorted vocabulary, from 0
FeatureIndex(t, vocab) == Cardinality({ u \in vocab : StrLess(u, t) })

\* the library is not pinned by the repository.  Its releases differ in two
\* ways that a second thread can observe: fit_transform either keeps the
\* TfidfTransformer made by the constructor or makes a new, unfitted, one
\* before it counts; and transform scales the counts either by a product
\* with the diagonal matrix of idf_ or by indexing idf_ with the columns.
Builds ==
  { [class |-> "MockGradingService", renews_tfidf |-> r, scaling |-> sc] :
      r \in BOOLEAN, sc \in {"product", "indexed"} }

\* self._tfidf.transform(X), where X has the columns of the caller's own
\* vocabulary and idf_ is what the shared transformer holds at this moment:
\* idf_ is applied by column number
TransformShared(X, shared, scaling) ==
  The({ IF DOMAIN shared.idf_ = {}
          THEN [raised |-> TRUE, error |-> "NotFittedError", matrix |-> <<>>]
        ELSE IF Cardinality(vocab) # Cardinality(DOMAIN shared.idf_)
                /\ scaling = "product"
          THEN [raised |-> TRUE, error |-> "ValueError", matrix |-> <<>>]
        ELSE IF Cardinality(vocab) > Cardinality(DOMAIN shared.idf_)
          THEN [raised |-> TRUE, error |-> "IndexError", matrix |-> <<>>]
        ELSE [raised |-> FALSE, error |-> "",
              matrix |->
                TransformTfidf(X, vocab,
                  [t \in vocab |->
                     shared.idf_[CHOOSE u \in DOMAIN shared.idf_ :
                                   FeatureIndex(u, DOMAIN shared.idf_)
                                     = FeatureIndex(t, vocab)]] @@ <<>>)]
        : vocab \in { VocabularyOf(X) } })

\* what a call returns once _calculate_similarity has returned value
ThreadGraded(question, answer_text, value, path) ==
  \* the vectorizer of the record is not used: the shared one is a variable
  The({ IF question.question_type = "SHORT"
          THEN ShortGraded(question, answer_text, sim)
          ELSE LongGraded(question, answer_text, sim)
        : sim \in { [raised |-> FALSE, error |-> "", value |-> value,
                     vectorizer |-> Unfitted, path |-> path] } })

\* the questions and the answers of the concurrent calls
ThreadQuestions ==
  { q \in Questions :
      \/ q.question_type = "MCQ"
      \/ q.question_type = "SHORT" /\ q.marks = 500
      \/ q.question_type = "SHORT" /\ q.marks = 1000 /\ q.grading_criteria = <<>>
      \/ q.question_type = "LONG" }

ThreadAnswers ==
  { TxtEmpty, TxtData, TxtBase, TxtData \o TxtBase, TxtThe \o Blank \o <<"b">> }

NotStarted == [pc |-> "idle"]

Finished(question, answer_text, graded) ==
  [pc |-> "done", question |-> question, answer_text |-> answer_text,
   raised |-> graded.raised,
   result |-> IF graded.raised THEN <<>> ELSE graded.result]

\* one grader, made with some build of the library, and no call yet
ConcInit ==
  /\ vectorizer = Unfitted
  /\ call = Idle
  /\ service \in Builds
  /\ threads = [t \in Threads |-> NotStarted]
  /\ db = NoRows
  /\ requests = NoRequests

\* grade_answer up to the call of fit_transform: the exact-match strategy
\* and the early return of _calculate_similarity do not touch the vectorizer
ThreadBegin(t, question, answer_text) ==
  /\ threads[t].pc = "idle"
  /\ threads' =
       [threads EXCEPT ![t] =
          IF question.question_type \in {"MCQ", "TRUE_FALSE"}
            THEN Finished(question, answer_text,
                          GradeMcq(vectorizer, question, answer_text))
          ELSE IF \/ Strip(question.expected_answer) = <<>>
                  \/ Strip(answer_text) = <<>>
            THEN Finished(question, answer_text,
                          ThreadGraded(question, answer_text, 0, "skipped"))
          ELSE [pc |-> "count", question |-> question,
                answer_text |-> answer_text]]
  /\ UNCHANGED <<vectorizer, call, service, db, requests>>

\* fit_transform, first part: a build that renews the transformer does so
\* now; the documents are counted into a matrix local to the call; an empty
\* vocabulary raises ValueError, which the except branch turns into the word
\* overlap; otherwise the vocabulary is stored in the shared vectorizer
ThreadCountVocab(t) ==
  /\ threads[t].pc = "count"
  /\ \E th \in { threads[t] } :
     \E X \in { CountVocab(<<th.question.expected_answer, th.answer_text>>) } :
     \E idf \in { IF service.renews_tfidf THEN <<>> ELSE vectorizer.idf_ } :
       IF VocabularyOf(X) = {}
         THEN /\ vectorizer' = [vectorizer EXCEPT !.idf_ = idf]
              /\ threads' =
                   [threads EXCEPT ![t] =
                      Finished(th.question, th.answer_text,
                        ThreadGraded(th.question, th.answer_text,
                          WordOverlap(th.question.expected_answer,
                                      th.answer_text),
                          "fallback"))]
         ELSE /\ vectorizer' = [fitted |-> TRUE,
                                vocabulary_ |-> VocabularyOf(X),
                                idf_ |-> idf]
              /\ threads' =
                   [threads EXCEPT ![t] =
                      [pc |-> "fit", question |-> th.question,
                       answer_text |-> th.answer_text, X |-> X]]
  /\ UNCHANGED <<call, service, db, requests>>

\* fit_transform, second part: self._tfidf.fit(X) stores idf_ in the shared
\* transformer
ThreadFitIdf(t) ==
  /\ threads[t].pc = "fit"
  /\ vectorizer' =
       [vectorizer EXCEPT !.idf_ = FitIdf(threads[t].X,
                                          VocabularyOf(threads[t].X))]
  /\ threads' = [threads EXCEPT ![t].pc = "transform"]
  /\ UNCHANGED <<call, service, db, requests>>

\* fit_transform, last part, and the rest of the call: self._tfidf.transform(X)
\* reads idf_ from the shared transformer; whatever it raises is caught by the
\* except branch of _calculate_similarity
ThreadTransform(t) ==
  /\ threads[t].pc = "transform"
  /\ \E th \in { threads[t] } :
     \E tr \in { TransformShared(th.X, vectorizer, service.scaling) } :
       threads' =
         [threads EXCEPT ![t] =
            Finished(th.question, th.answer_text,
              IF tr.raised
                THEN ThreadGraded(th.question, th.answer_text,
                       WordOverlap(th.question.expected_answer, th.answer_text),
                       "fallback")
                ELSE ThreadGraded(th.question, th.answer_text,
                       Cosine(tr.matrix[1], tr.matrix[2]), "tfidf"))]
  /\ UNCHANGED <<vectorizer, call, service, db, requests>>

ConcNext ==
  \/ \E t \in Threads, question \in ThreadQuestions, answer_text \in ThreadAnswers :
       ThreadBegin(t, question, answer_text)
  \/ \E t \in Threads : ThreadCountVocab(t)
  \/ \E t \in Threads : ThreadFitIdf(t)
  \/ \E t \in Threads : ThreadTransform(t)

ConcSpec == ConcInit /\ [][ConcNext]_vars

\* C12: every call that has finished on the shared grader, whatever the
\* other thread did in the meantime, has returned the result that the same
\* call returns when it runs alone on a grader of its own
C12_SameResultAsAlone ==
  \A t \in Threads :
    threads[t].pc = "done" =>
      \E alone \in { MockGradeAnswer(Unfitted, threads[t].question,
                                     threads[t].answer_text) } :
        /\ threads[t].raised = alone.raised
        /\ ~alone.raised => threads[t].result = alone.result


(***************************************************************************)
(* Submissions: SubmissionViewSet.create, each request in a transaction of *)
(* its own on one database                                                 *)
(***************************************************************************)
\* the number of create requests
MaxRequests == 2

RequestIds == 1..MaxRequests

Students == {"s1", "s2"}

\* Python numbers, in hundredths, with the type that decides how they mix
Float(cents) == [type |-> "float", cents |-> cents]

Decimal(cents) == [type |-> "Decimal", cents |-> cents]

\* the largest value of Question.marks: DecimalField(max_digits=5, decimal_places=2)
MaxMarks == 99999

\* Submission.total_score is DecimalField(max_digits=6, decimal_places=2):
\* a value is stored only if it is below 10^4
TotalScoreLimit == 1000000

\* timezone.now(), the same for all the requests looked at
Now == 3

\* the exams table: exam 2 is over, exam 3 has total_marks 0, the questions
\* of exam 4 carry more marks than total_score can hold, exam 5 has not
\* started, exam 6 is switched off
ExamRows ==
  [id \in 1..6 |->
     [is_active     |-> id # 6,
      start_time    |-> IF id = 2 THEN Now - 2
                        ELSE IF id = 5 THEN Now + 1 ELSE Now - 1,
      end_time      |-> IF id = 2 THEN Now - 1 ELSE Now + 2,
      total_marks   |-> Decimal(IF id = 3 THEN 0 ELSE 10000),
      passing_marks |-> Decimal(IF id = 3 THEN 0 ELSE 4000)]]

\* Exam.is_available
IsAvailable(exam, now) ==
  exam.is_active /\ exam.start_time <= now /\ now <= exam.end_time

\* the questions table
QuestionRows ==
  [id \in 1..16 |->
     IF id = 2
       THEN [exam |-> 1, question_type |-> "SHORT", marks |-> 500,
             expected_answer |-> TxtData \o Blank \o TxtBase,
             grading_criteria |-> [keywords |-> << TxtBase, TxtEmpty >>]]
       ELSE [exam |-> IF id = 1 THEN 1 ELSE IF id = 3 THEN 2
                      ELSE IF id = 4 \/ id = 16 THEN 3 ELSE 4,
             question_type |-> "MCQ",
             marks |-> IF id <= 4 \/ id = 16 THEN 1000 ELSE MaxMarks,
             expected_answer |-> TxtB,
             grading_criteria |-> <<>>]]

Ans(question_id, answer_text) ==
  [question_id |-> question_id, answer_text |-> answer_text]

\* request.data of the create requests
Payloads ==
  { [exam_id |-> 1, answers |-> << Ans(1, TxtB), Ans(2, TxtData) >>],
    [exam_id |-> 1, answers |-> << Ans(1, <<"A">>) >>],
    [exam_id |-> 1, answers |-> << >>],
    [exam_id |-> 1, answers |-> << Ans(1, TxtB), Ans(4, TxtB) >>],
    [exam_id |-> 1, answers |-> << Ans(1, TxtB), Ans(1, <<"A">>) >>],
    [exam_id |-> 1, answers |-> << Ans(99, TxtB) >>],
    [exam_id |-> 9, answers |-> << Ans(1, TxtB) >>],
    [exam_id |-> 2, answers |-> << Ans(3, TxtB) >>],
    [exam_id |-> 3, answers |-> << Ans(4, TxtB) >>],
    [exam_id |-> 3, answers |-> << Ans(16, TxtB), Ans(4, TxtB) >>],
    [exam_id |-> 4, answers |-> [i \in 1..11 |-> Ans(4 + i, TxtB)]] }

\* validate_exam_id, validate_question_id of every answer, validate_answers
FieldErrors(data) ==
  (IF data.exam_id \notin DOMAIN ExamRows
     THEN {"Invalid exam ID"}
   ELSE IF ~IsAvailable(ExamRows[data.exam_id], Now)
     THEN {"Exam is not currently available for submission"}
     ELSE {})
  \cup
  (IF \E i \in DOMAIN data.answers :
        data.answers[i].question_id \notin DOMAIN QuestionRows
     THEN {"Invalid question ID"}
   ELSE IF data.answers = <<>>
     THEN {"At least one answer is required"}
     ELSE {})

\* a faulty variant of validate: a question that is answered twice passes
CrossFieldErrorsNoDuplicateCheck(data) ==
  IF { data.answers[i].question_id : i \in DOMAIN data.answers }
       \ { q \in DOMAIN QuestionRows : QuestionRows[q].exam = data.exam_id } # {}
    THEN {"Questions do not belong to this exam"}
    ELSE {}

\* SubmissionCreateSerializer.validate
CrossFieldErrors(data) ==
  IF { data.answers[i].question_id : i \in DOMAIN data.answers }
       \ { q \in DOMAIN QuestionRows : QuestionRows[q].exam = data.exam_id } # {}
    THEN {"Questions do not belong to this exam"}
  ELSE IF Len(data.answers)
            # Cardinality({ data.answers[i].question_id : i \in DOMAIN data.answers })
    THEN {"Duplicate question submissions detected"}
    ELSE {}

\* serializer.is_valid: validate runs only when no field has an error
ValidationErrors(data) ==
  IF FieldErrors(data) # {} THEN FieldErrors(data) ELSE CrossFieldErrors(data)

\* a faulty variant of the unique constraint: none
UniqueViolationNever(rows, student, exam) == FALSE

\* unique_together = ["student", "exam"]: a row of the pair is there already
UniqueViolation(rows, student, exam) ==
  \E row \in rows : row.student = student /\ row.exam = exam

\* unique_together = ["submission", "question"] of the answers of one request
AnswerUniqueViolation(answers) ==
  \E i, j \in DOMAIN answers :
    i < j /\ answers[i].question_id = answers[j].question_id

GradingFeedback(text, message, percentage) ==
  [text |-> text, message |-> message, percentage |-> percentage]

\* a faulty variant of the create: the status is left to its default
NewSubmissionInProgress(id, student, exam) ==
  [id |-> id, student |-> student, exam |-> exam, status |-> "IN_PROGRESS",
   total_score |-> None, percentage |-> None, graded_at |-> None,
   grading_feedback |-> GradingFeedback("", "", None)]

\* Submission.objects.create(student, exam, status="SUBMITTED", ...)
NewSubmission(id, student, exam) ==
  [id |-> id, student |-> student, exam |-> exam, status |-> "SUBMITTED",
   total_score |-> None, percentage |-> None, graded_at |-> None,
   grading_feedback |-> GradingFeedback("", "", None)]

\* what a request does to its submission, in the order it does it: the row
\* is written with a status (create, save), or the answer at index of the
\* request is handed to the grader, which returns a score or raises
Wrote(op, status) == [op |-> op, status |-> status, index |-> 0, score |-> None]

Called(index, score) == [op |-> "grade", status |-> "", index |-> index, score |-> score]

\* Answer.objects.create(submission, question, answer_text)
NewAnswer(id, answer_data) ==
  [submission |-> id, question |-> answer_data.question_id,
   answer_text |-> answer_data.answer_text,
   score |-> None, feedback |-> <<>>, is_correct |-> None]

\* a DecimalField as it is stored: a float that is saved comes back a Decimal
Stored(value) == IF value = None THEN None ELSE Some(Decimal(value[1].cents))

\* submission.save(): a total_score too wide for its column is refused
SaveSubmission(submission) ==
  IF submission.total_score # None
     /\ submission.total_score[1].cents >= TotalScoreLimit
    THEN [raised |-> TRUE, error |-> "DataError", row |-> submission]
    ELSE [raised |-> FALSE, error |-> "",
          row |-> [submission EXCEPT !.total_score = Stored(@),
                                     !.percentage = Stored(@)]]

\* answer.save()
SaveAnswer(answer) == [answer EXCEPT !.score = Stored(@)]

\* Python's a / b: a float and a Decimal do not divide
PyDiv(a, b) ==
  IF a.type # b.type
    THEN [raised |-> TRUE, error |-> "TypeError",
          message |-> "unsupported operand type(s) for /: 'float' and 'decimal.Decimal'",
          value |-> a]
    ELSE [raised |-> FALSE, error |-> "", message |-> "",
          value |-> [type |-> a.type, cents |-> (a.cents * 100) \div b.cents]]

\* Submission.calculate_percentage
CalculatePercentage(submission, exam) ==
  IF submission.total_score # None /\ exam.total_marks.cents > 0
    THEN The({ IF d.raised
                 THEN [raised |-> TRUE, error |-> d.error,
                       message |-> d.message, submission |-> submission]
                 ELSE [raised |-> FALSE, error |-> "", message |-> "",
                       submission |->
                         [submission EXCEPT !.percentage =
                            Some([type |-> d.value.type,
                                  cents |-> d.value.cents * 100])]]
               : d \in { PyDiv(submission.total_score[1], exam.total_marks) } })
    ELSE [raised |-> FALSE, error |-> "", message |-> "",
          submission |-> submission]

\* a faulty variant of is_passed: the passing mark itself does not pass
IsPassedAbove(submission, exam) ==
  IF submission.total_score # None
    THEN Some(submission.total_score[1].cents > exam.passing_marks.cents)
    ELSE None

\* Submission.is_passed: a float and a Decimal do compare
IsPassed(submission, exam) ==
  IF submission.total_score # None
    THEN Some(submission.total_score[1].cents >= exam.passing_marks.cents)
    ELSE None

RECURSIVE GradeAnswersOverwriting(_, _, _, _)
\* a faulty variant of the loop: total_score is set to the score of the
\* answer, not raised by it
GradeAnswersOverwriting(grader, answers, i, total_score) ==
  IF i > Len(answers)
    THEN [raised |-> FALSE, error |-> "", answers |-> answers,
          total_score |-> total_score, events |-> <<>>]
    ELSE The({ IF g.raised
                 THEN [raised |-> TRUE, error |-> g.error, answers |-> answers,
                       total_score |-> total_score,
                       events |-> << Called(i, None) >>]
                 ELSE [ GradeAnswersOverwriting(
                          g.vectorizer,
                          [answers EXCEPT ![i] =
                             SaveAnswer([@ EXCEPT
                               !.score = Some(Float(g.result.score)),
                               !.feedback = g.result.feedback,
                               !.is_correct = Some(g.result.is_correct)])],
                          i + 1, g.result.score)
                        EXCEPT !.events =
                          << Called(i, Some(Float(g.result.score))) >> \o @ ]
               : g \in { MockGradeAnswer(grader,
                                         QuestionRows[answers[i].question],
                                         answers[i].answer_text) } })

RECURSIVE GradeAnswers(_, _, _, _)
\* the loop of _grade_submission from the i-th answer on: one grader for the
\* whole submission, every answer saved as soon as it is graded
GradeAnswers(grader, answers, i, total_score) ==
  IF i > Len(answers)
    THEN [raised |-> FALSE, error |-> "", answers |-> answers,
          total_score |-> total_score, events |-> <<>>]
    ELSE The({ IF g.raised
                 THEN [raised |-> TRUE, error |-> g.error, answers |-> answers,
                       total_score |-> total_score,
                       events |-> << Called(i, None) >>]
                 ELSE [ GradeAnswers(
                          g.vectorizer,
                          [answers EXCEPT ![i] =
                             SaveAnswer([@ EXCEPT
                               !.score = Some(Float(g.result.score)),
                               !.feedback = g.result.feedback,
                               !.is_correct = Some(g.result.is_correct)])],
                          i + 1, total_score + g.result.score)
                        EXCEPT !.events =
                          << Called(i, Some(Float(g.result.score))) >> \o @ ]
               : g \in { MockGradeAnswer(grader,
                                         QuestionRows[answers[i].question],
                                         answers[i].answer_text) } })

Graded(raised, error, message, submission, answers, events) ==
  [raised |-> raised, error |-> error, message |-> message,
   submission |-> submission, answers |-> answers, events |-> events]

\* _grade_submission: the submission object as the method leaves it, the
\* answers as saved, and what the method raised, if anything
GradeSubmission(submission, answers, exam) ==
  The({
    IF loop.raised
      THEN Graded(TRUE, loop.error, loop.error,
                  [submission EXCEPT !.status = "GRADING"], loop.answers,
                  << Wrote("save", "GRADING") >> \o loop.events)
    ELSE The({
      IF cp.raised
        THEN Graded(TRUE, cp.error, cp.message, cp.submission, loop.answers,
                    << Wrote("save", "GRADING") >> \o loop.events)
      ELSE IF cp.submission.percentage = None
        THEN Graded(TRUE, "TypeError",
                    "unsupported format string passed to NoneType.__format__",
                    [cp.submission EXCEPT !.status = "GRADED",
                                          !.graded_at = Some(Now)],
                    loop.answers,
                    << Wrote("save", "GRADING") >> \o loop.events)
      ELSE The({
        IF saved.raised
          THEN Graded(TRUE, saved.error, saved.error, saved.row, loop.answers,
                      << Wrote("save", "GRADING") >> \o loop.events)
          ELSE Graded(FALSE, "", "", saved.row, loop.answers,
                      << Wrote("save", "GRADING") >> \o loop.events
                        \o << Wrote("save", "GRADED") >>)
        : saved \in { SaveSubmission(
            [cp.submission EXCEPT
               !.status = "GRADED",
               !.graded_at = Some(Now),
               !.grading_feedback =
                  GradingFeedback(
                    IF IsPassed(cp.submission, exam) = Some(TRUE)
                      THEN "Congratulations! You passed with {:.2f}%"
                      ELSE "You scored {:.2f}%. Keep practicing!",
                    "", cp.submission.percentage)]) } })
      : cp \in { CalculatePercentage(
                   [submission EXCEPT
                      !.status = "GRADING",
                      !.total_score = Some(Float(loop.total_score))],
                   exam) } })
    : loop \in { GradeAnswers(Unfitted, answers, 1, 0) } })

Response(status, error, submission, answers) ==
  [status |-> status, error |-> error, submission |-> submission,
   answers |-> answers]

\* what became of the grading of a request: whether _grade_submission
\* raised and with what, the submission object as it left it, and what the
\* request did to its submission
Grading(raised, message, left, events) ==
  [performed |-> TRUE, raised |-> raised, message |-> message,
   left |-> left, events |-> events]

NoGrading ==
  [performed |-> FALSE, raised |-> FALSE, message |-> "", left |-> None,
   events |-> <<>>]

NotReceived == [pc |-> "new"]

\* a request that has got to pc; txn holds the rows that it has written and
\* not yet committed
Request(pc, student, data, errors, found, grading, txn, response) ==
  [pc |-> pc, student |-> student, data |-> data, errors |-> errors,
   found_existing |-> found, grading |-> grading, txn |-> txn,
   response |-> response]

NoResponse == Response(0, "", None, {})

SubmitInit ==
  /\ vectorizer = Unfitted
  /\ call = Idle
  /\ service = NoService
  /\ threads = NoThreads
  /\ db = NoRows
  /\ requests = [r \in RequestIds |-> NotReceived]

\* create, up to the check for an existing submission: a request that fails
\* validation is answered 400, and so is one whose student has a committed
\* submission for the exam
Receive(r, student, data) ==
  /\ requests[r].pc = "new"
  /\ \A o \in RequestIds : o < r => requests[o].pc # "new"
  /\ \E errors \in { ValidationErrors(data) } :
       requests' =
         [requests EXCEPT ![r] =
            IF errors # {}
              THEN Request("done", student, data, errors, FALSE, NoGrading,
                           NoRows, Response(400, "ValidationError", None, {}))
            ELSE IF \E row \in db.submissions :
                      row.student = student /\ row.exam = data.exam_id
              THEN Request("done", student, data, errors, TRUE, NoGrading,
                           NoRows,
                           Response(400, "You have already submitted this exam",
                                    None, {}))
              ELSE Request("checked", student, data, errors, FALSE, NoGrading,
                           NoRows, NoResponse)]
  /\ UNCHANGED <<vectorizer, call, service, threads, db>>

\* what the request does once its INSERT has gone through the unique index:
\* the answers are created, the submission is graded, a failure of the
\* grading is recorded on the submission, and the response is built.  An
\* exception that leaves create rolls the transaction back.
Handle(r, req) ==
  IF UniqueViolation(db.submissions, req.student, req.data.exam_id)
    THEN Request("done", req.student, req.data, req.errors, FALSE, NoGrading,
                 NoRows, Response(500, "IntegrityError", None, {}))
  ELSE IF AnswerUniqueViolation(req.data.answers)
    THEN Request("done", req.student, req.data, req.errors, FALSE, NoGrading,
                 NoRows, Response(500, "IntegrityError", None, {}))
  ELSE The({
    IF ~g.raised
      THEN Request("graded", req.student, req.data, req.errors, FALSE,
                   Grading(FALSE, "", Some(g.submission),
                           << Wrote("create", new.status) >> \o g.events),
                   [submissions |-> { g.submission },
                    answers |-> { g.answers[i] : i \in DOMAIN g.answers }],
                   Response(201, "", Some(g.submission),
                            { g.answers[i] : i \in DOMAIN g.answers }))
    ELSE The({
      IF saved.raised
        THEN Request("done", req.student, req.data, req.errors, FALSE,
                     Grading(TRUE, g.message, Some(g.submission),
                             << Wrote("create", new.status) >> \o g.events),
                     NoRows, Response(500, saved.error, None, {}))
        ELSE Request("graded", req.student, req.data, req.errors, FALSE,
                     Grading(TRUE, g.message, Some(g.submission),
                             << Wrote("create", new.status) >> \o g.events
                               \o << Wrote("save", "FAILED") >>),
                     [submissions |-> { saved.row },
                      answers |-> { g.answers[i] : i \in DOMAIN g.answers }],
                     Response(201, "", Some(saved.row),
                              { g.answers[i] : i \in DOMAIN g.answers }))
      : saved \in { SaveSubmission(
          [g.submission EXCEPT
             !.status = "FAILED",
             !.grading_feedback =
                GradingFeedback("Grading error: {}", g.message, None)]) } })
    : new \in { NewSubmission(r, req.student, req.data.exam_id) },
      g \in { GradeSubmission(
                NewSubmission(r, req.student, req.data.exam_id),
                [i \in DOMAIN req.data.answers |->
                   NewAnswer(r, req.data.answers[i])],
                ExamRows[req.data.exam_id]) } })

\* create, from Submission.objects.create to the response: the INSERT waits
\* while another transaction holds an uncommitted row of the same pair
CreateAndGrade(r) ==
  /\ requests[r].pc = "checked"
  /\ ~\E o \in RequestIds \ {r} :
        /\ requests[o].pc = "graded"
        /\ requests[o].student = requests[r].student
        /\ requests[o].data.exam_id = requests[r].data.exam_id
  /\ requests' = [requests EXCEPT ![r] = Handle(r, requests[r])]
  /\ UNCHANGED <<vectorizer, call, service, threads, db>>

\* the transaction of the request commits and the response is sent
Commit(r) ==
  /\ requests[r].pc = "graded"
  /\ db' = [submissions |-> db.submissions \cup requests[r].txn.submissions,
            answers |-> db.answers \cup requests[r].txn.answers]
  /\ requests' = [requests EXCEPT ![r].pc = "done"]
  /\ UNCHANGED <<vectorizer, call, service, threads>>

SubmitNext ==
  \/ \E r \in RequestIds, student \in Students, data \in Payloads :
       Receive(r, student, data)
  \/ \E r \in RequestIds : CreateAndGrade(r)
  \/ \E r \in RequestIds : Commit(r)

SubmitSpec == SubmitInit /\ [][SubmitNext]_vars


(***************************************************************************)
(* Properties of the create requests                                       *)
(***************************************************************************)
Answered(r) == requests[r].pc = "done"

\* the rows of the database that request r has created
SubmissionsOf(r) == { row \in db.submissions : row.id = r }

AnswersOf(r) == { row \in db.answers : row.submission = r }

\* C17: a request that passed validation and whose student had no submission
\* for the exam is answered 201 with a submission that is GRADED, has a
\* total_score and a percentage, and whose answers, one per answer sent, all
\* have a score, a verdict and a feedback
C17_ValidRequestIsGraded ==
  \A r \in RequestIds :
    ( /\ Answered(r)
      /\ requests[r].errors = {}
      /\ ~requests[r].found_existing
      /\ requests[r].response.error # "IntegrityError" )
    => /\ requests[r].response.status = 201
       /\ requests[r].response.submission # None
       /\ \E submission \in { requests[r].response.submission[1] } :
            /\ submission.status = "GRADED"
            /\ submission.total_score # None
            /\ submission.percentage # None
       /\ Cardinality(requests[r].response.answers)
            = Len(requests[r].data.answers)
       /\ \A answer \in requests[r].response.answers :
            /\ answer.score # None
            /\ answer.is_correct # None
            /\ answer.feedback # <<>>

\* C18: a request whose grading raised is answered 201 with the submission,
\* which is stored with status FAILED and a grading_feedback that holds the
\* text of the exception
C18_GradingFailureIsRecorded ==
  \A r \in RequestIds :
    (Answered(r) /\ requests[r].grading.raised)
    => /\ requests[r].response.status = 201
       /\ requests[r].response.submission # None
       /\ SubmissionsOf(r) = { requests[r].response.submission[1] }
       /\ \A submission \in SubmissionsOf(r) :
            /\ submission.status = "FAILED"
            /\ submission.grading_feedback.text = "Grading error: {}"
            /\ submission.grading_feedback.message = requests[r].grading.message
            /\ requests[r].grading.message # ""

FailsValidation(data) ==
  \/ data.exam_id \notin DOMAIN ExamRows
  \/ ~IsAvailable(ExamRows[data.exam_id], Now)
  \/ data.answers = <<>>
  \/ \E i \in DOMAIN data.answers :
       \/ data.answers[i].question_id \notin DOMAIN QuestionRows
       \/ QuestionRows[data.answers[i].question_id].exam # data.exam_id
  \/ \E i, j \in DOMAIN data.answers :
       i # j /\ data.answers[i].question_id = data.answers[j].question_id

\* C20: a request that fails validation is answered 400; it has written
\* nothing, no submission and no answer of it is stored, and nothing was graded
C20_InvalidRequestChangesNothing ==
  \A r \in RequestIds :
    (requests[r].pc # "new" /\ FailsValidation(requests[r].data))
    => /\ Answered(r)
       /\ requests[r].response.status = 400
       /\ requests[r].errors # {}
       /\ requests[r].txn = NoRows
       /\ ~requests[r].grading.performed
       /\ SubmissionsOf(r) = {}
       /\ AnswersOf(r) = {}

\* a request that answers a question twice has been rejected, after another
\* request has stored a submission
C20_DuplicateQuestionRejected ==
  \E r \in RequestIds :
    /\ Answered(r)
    /\ requests[r].errors = {"Duplicate question submissions detected"}
    /\ requests[r].response.status = 400
    /\ db.submissions # {}


(***************************************************************************)
(* The read endpoints of ExamViewSet and SubmissionViewSet, on a database  *)
(* of exams and of submissions that were stored earlier.  Every list is    *)
(* shorter than a page.                                                    *)
(***************************************************************************)
\* what a stored submission can look like: not yet submitted, graded below,
\* at and above a passing mark, and failed
StoredStates ==
  { [status |-> "IN_PROGRESS", total_score |-> None],
    [status |-> "GRADED", total_score |-> Some(Decimal(0))],
    [status |-> "GRADED", total_score |-> Some(Decimal(3999))],
    [status |-> "GRADED", total_score |-> Some(Decimal(4000))] }

\* the student and the exam of the submission with a given id
StoredKeys ==
  << [student |-> "s1", exam |-> 1], [student |-> "s1", exam |-> 3],
     [student |-> "s2", exam |-> 1], [student |-> "s2", exam |-> 3] >>

StoredSubmission(id, state) ==
  [NewSubmission(id, StoredKeys[id].student, StoredKeys[id].exam)
     EXCEPT !.status = state.status, !.total_score = state.total_score,
            !.graded_at = IF state.status = "GRADED" THEN Some(Now) ELSE None]

\* the databases the read requests run on: any of the submissions, each in
\* any state, every one with an answer to the first question of its exam
StoredRows ==
  { [submissions |-> { StoredSubmission(id, state[id]) : id \in ids },
     answers |->
       { NewAnswer(id, Ans(IF StoredKeys[id].exam = 1 THEN 1 ELSE 4, TxtB))
         : id \in ids }]
    : ids \in SUBSET DOMAIN StoredKeys, state \in [DOMAIN StoredKeys -> StoredStates] }

\* ExamViewSet.get_queryset
ExamQueryset == { id \in DOMAIN ExamRows : ExamRows[id].is_active }

\* ExamListSerializer
ExamListRow(id) ==
  [id |-> id, start_time |-> ExamRows[id].start_time,
   end_time |-> ExamRows[id].end_time,
   is_available |-> IsAvailable(ExamRows[id], Now)]

\* a faulty variant of get_queryset: the submissions of every student
SubmissionQuerysetOfAll(rows, user) == rows

\* SubmissionViewSet.get_queryset
SubmissionQueryset(rows, user) == { row \in rows : row.student = user }

\* SubmissionListSerializer
SubmissionListRow(row) ==
  [id |-> row.id, exam |-> row.exam, status |-> row.status,
   total_score |-> row.total_score, percentage |-> row.percentage,
   is_passed |-> IsPassed(row, ExamRows[row.exam])]

\* SubmissionDetailSerializer
SubmissionDetail(row, answers) ==
  [id |-> row.id, student |-> row.student, exam |-> row.exam,
   status |-> row.status, total_score |-> row.total_score,
   percentage |-> row.percentage,
   is_passed |-> IsPassed(row, ExamRows[row.exam]),
   grading_feedback |-> row.grading_feedback,
   answers |-> { answer \in answers : answer.submission = row.id }]

\* the filters of my_submissions: a parameter that is absent or empty is
\* not applied
FilterBy(queryset, status_param, exam_id) ==
  { row \in queryset :
      /\ status_param # None => row.status = status_param[1]
      /\ exam_id # None => row.exam = exam_id[1] }

Responded(endpoint, user, pk, status, results, body) ==
  [outcome |-> "responded", endpoint |-> endpoint, user |-> user, pk |-> pk,
   status |-> status, results |-> results, body |-> body]

\* get_object and the rest of retrieve or detailed_feedback
DetailResponse(endpoint, user, pk) ==
  The({ IF found = {}
          THEN Responded(endpoint, user, pk, 404, {}, None)
        ELSE The({ IF endpoint = "detailed_feedback" /\ row.student # user
                     THEN Responded(endpoint, user, pk, 403, {}, None)
                     ELSE Responded(endpoint, user, pk, 200, {},
                                    Some(SubmissionDetail(row, db.answers)))
                   : row \in found })
        : found \in { { row \in SubmissionQueryset(db.submissions, user) :
                          row.id = pk } } })

ReadInit ==
  /\ vectorizer = Unfitted
  /\ call = Idle
  /\ service = NoService
  /\ threads = NoThreads
  /\ db \in StoredRows
  /\ requests = NoRequests

\* GET /exams/ (a request is answered whatever was answered before)
ListExams(user) ==
  /\ call' = Responded("exams", user, 0, 200,
                       { ExamListRow(id) : id \in ExamQueryset }, None)
  /\ UNCHANGED <<vectorizer, service, threads, db, requests>>

\* GET /submissions/
ListSubmissions(user) ==
  /\ call' = Responded("list", user, 0, 200,
                       { SubmissionListRow(row) :
                           row \in SubmissionQueryset(db.submissions, user) },
                       None)
  /\ UNCHANGED <<vectorizer, service, threads, db, requests>>

\* GET /submissions/my_submissions/?status=..&exam_id=..
MySubmissions(user, status_param, exam_id) ==
  /\ call' = Responded("my_submissions", user, 0, 200,
                       { SubmissionListRow(row) :
                           row \in FilterBy(
                             SubmissionQueryset(db.submissions, user),
                             status_param, exam_id) },
                       None)
  /\ UNCHANGED <<vectorizer, service, threads, db, requests>>

\* GET /submissions/pk/
Retrieve(user, pk) ==
  /\ call' = DetailResponse("retrieve", user, pk)
  /\ UNCHANGED <<vectorizer, service, threads, db, requests>>

\* GET /submissions/pk/detailed_feedback/
DetailedFeedback(user, pk) ==
  /\ call' = DetailResponse("detailed_feedback", user, pk)
  /\ UNCHANGED <<vectorizer, service, threads, db, requests>>

ReadNext ==
  \/ \E user \in Students : ListExams(user)
  \/ \E user \in Students : ListSubmissions(user)
  \/ \E user \in Students, status_param \in {None, Some("GRADED")},
        exam_id \in {None, Some(3)} :
       MySubmissions(user, status_param, exam_id)
  \/ \E user \in Students, pk \in 1..(Len(StoredKeys) + 1) : Retrieve(user, pk)
  \/ \E user \in Students, pk \in 1..(Len(StoredKeys) + 1) :
       DetailedFeedback(user, pk)

ReadSpec == ReadInit /\ [][ReadNext]_vars

\* C21: the exam list holds only exams that are switched on and running:
\* no exam with is_active false, no exam that is over and no exam that has
\* not begun
C21_OnlyCurrentExamsListed ==
  (call.outcome = "responded" /\ call.endpoint = "exams")
  => \A exam \in call.results :
       /\ ExamRows[exam.id].is_active
       /\ ExamRows[exam.id].start_time <= Now
       /\ Now <= ExamRows[exam.id].end_time


IsListOfSubmissions ==
  call.outcome = "responded" /\ call.endpoint \in {"list", "my_submissions"}

IsDetailOfSubmission ==
  call.outcome = "responded" /\ call.endpoint \in {"retrieve", "detailed_feedback"}

\* C22: a list of submissions holds only submissions of the user who asked,
\* and a request for the detail or the detailed feedback of a submission of
\* another user is answered 404, with nothing of the submission in it
C22_OnlyOwnSubmissionsVisible ==
  /\ IsListOfSubmissions
     => \A listed \in call.results :
          \E row \in db.submissions :
            row.id = listed.id /\ row.student = call.user
  /\ IsDetailOfSubmission
     => \A row \in db.submissions :
          (row.id = call.pk /\ row.student # call.user)
          => call.status = 404 /\ call.body = None /\ call.results = {}

\* the detailed feedback of a submission that exists and belongs to another
\* student has been asked for and refused
C22_OtherStudentsFeedbackRefused ==
  /\ IsDetailOfSubmission
  /\ call.endpoint = "detailed_feedback"
  /\ call.status = 404
  /\ \E row \in db.submissions : row.id = call.pk /\ row.student # call.user
  /\ \E row \in db.submissions : row.student = call.user

\* C23: is_passed, as every listed submission shows it, is None when the
\* submission has no total_score, and otherwise tells whether the
\* total_score is at least the passing_marks of the exam
C23_IsPassed ==
  IsListOfSubmissions
  => \A listed \in call.results :
       \A row \in db.submissions :
         row.id = listed.id
         => /\ row.total_score = None => listed.is_passed = None
            /\ row.total_score # None
               => /\ listed.is_passed # None
                  /\ listed.is_passed[1]
                       <=> (row.total_score[1].cents
                              >= ExamRows[row.exam].passing_marks.cents)

\* a list shows a submission that is not graded and one whose total_score
\* is the passing mark exactly
C23_PassedAtThePassingMark ==
  /\ IsListOfSubmissions
  /\ \E listed \in call.results : listed.is_passed = None
  /\ \E listed \in call.results :
       /\ listed.is_passed = Some(TRUE)
       /\ listed.total_score = Some(ExamRows[listed.exam].passing_marks)
       /\ listed.exam = 1

(***************************************************************************)
(* Feedback texts, keyword extraction and the recorded metadata            *)
(***************************************************************************)
\* the overall assessments of the comprehensive feedback
OverallComments ==
  { Clause("Excellent comprehensive answer!", <<>>),
    Clause("Good answer with room for improvement.", <<>>),
    Clause("Your answer needs significant improvement.", <<>>) }

\* the three suggestions of the comprehensive feedback, in their order, for
\* an answer of word_count words
Suggestions(word_count) ==
  << Clause("Consider expanding your answer (current: {} words).", Str(word_count)),
     Clause("Include more key concepts from the topic.", <<>>),
     Clause("Your answer could align better with the expected content.", <<>>) >>

\* the elements of seq whose index is in keep, in their order
Kept(seq, keep) ==
  [k \in 1..Cardinality(keep) |->
     seq[CHOOSE i \in keep : Cardinality({ j \in keep : j < i }) = k - 1]]

\* C24: comprehensive feedback starts with exactly one overall tier comment,
\* followed, each independently of the others and in this order, by the
\* expand-your-answer clause (with the word count of the answer) iff the
\* length score is below 0.6, the key-concepts clause iff the keyword score
\* is below 0.5, and the align-with-expected clause iff the similarity score
\* is below 0.4; nothing else is in it.
C24_DetailedFeedbackClauses ==
  (HasReturned /\ MethodUsed = "comprehensive") =>
    \E f \in { call.result.feedback },
       keep \in { { i \in 1..3 :
                      \/ i = 1 /\ 10 * call.locals.length_score < 6 * Unit
                      \/ i = 2 /\ 10 * call.locals.keyword_score < 5 * Unit
                      \/ i = 3 /\ 10 * call.locals.similarity_score < 4 * Unit } } :
       /\ Len(f) >= 1
       /\ f[1] \in OverallComments
       /\ \A i \in 2..Len(f) : f[i] \notin OverallComments
       /\ Tail(f) = Kept(Suggestions(Cardinality(WordStarts(call.answer_text))), keep)

\* an answer of 200 words that misses the keywords and the expected content
\* is told so, and is not told to expand
C24_LongAnswerOffTopic ==
  /\ HasReturned
  /\ MethodUsed = "comprehensive"
  /\ call.locals.length_score = Unit
  /\ Len(call.result.feedback) = 3
  /\ call.result.feedback[2].text = "Include more key concepts from the topic."
  /\ call.result.feedback[3].text
       = "Your answer could align better with the expected content."

\* the message of the band that a combined score (in tenths of the unit)
\* falls in
BandMessage(combined) ==
  CHOOSE text \in { "Excellent answer! Well done.",
                    "Good answer. You covered the main points.",
                    "Partial credit. Your answer covers some key concepts but could be improved.",
                    "Your answer needs improvement. Please review the key concepts." } :
    /\ text = "Excellent answer! Well done." <=> combined >= 9 * Unit
    /\ text = "Good answer. You covered the main points."
         <=> (7 * Unit <= combined /\ combined < 9 * Unit)
    /\ text = "Partial credit. Your answer covers some key concepts but could be improved."
         <=> (5 * Unit <= combined /\ combined < 7 * Unit)

\* C25: short-answer feedback is selected only by the combined score: the
\* Excellent message from 0.9, the Good message from 0.7 to below 0.9, the
\* Partial-credit message from 0.5 to below 0.7 and the needs-improvement
\* message otherwise; so is_correct is true exactly when the feedback is the
\* Excellent or the Good message.
C25_ShortFeedbackBands ==
  (HasReturned /\ call.question.question_type = "SHORT") =>
    /\ call.result.feedback
         = << Clause(BandMessage(call.locals.combined_score), <<>>) >>
    /\ call.result.is_correct
         <=> call.result.feedback[1].text
               \in { "Excellent answer! Well done.",
                     "Good answer. You covered the main points." }

\* a SHORT answer with a combined score between 0.5 and 0.7 gets the
\* Partial-credit message and is not correct
C25_PartialCredit ==
  /\ HasReturned
  /\ call.question.question_type = "SHORT"
  /\ call.locals.combined_score >= 5 * Unit
  /\ call.locals.combined_score < 7 * Unit
  /\ call.result.feedback[1].text
       = "Partial credit. Your answer covers some key concepts but could be improved."
  /\ ~call.result.is_correct

\* word stands in text at position i as a whole word: no word character
\* before it or after it
StandsAt(text, i, word) ==
  /\ i + Len(word) - 1 <= Len(text)
  /\ \A k \in 1..Len(word) : text[i + k - 1] = word[k]
  /\ i > 1 => text[i - 1] \notin WordChars
  /\ i + Len(word) <= Len(text) => text[i + Len(word)] \notin WordChars

\* the positions of text where word stands
Occurrences(text, word) == { i \in 1..Len(text) : StandsAt(text, i, word) }

\* the position of the first occurrence of word in text
FirstSeen(text, word) ==
  CHOOSE i \in Occurrences(text, word) : \A j \in Occurrences(text, word) : i <= j

\* the qualifying words of text: the whole words of at least four letters
\* and nothing but letters
Qualifying(text) ==
  { w \in { SubSeq(text, i, j) : i \in 1..Len(text), j \in 1..Len(text) } :
      /\ Len(w) >= 4
      /\ \A k \in 1..Len(w) : IsAlpha(w[k])
      /\ Occurrences(text, w) # {} }

\* C26: keyword extraction from expected_answer returns at most 5 distinct
\* lower-cased alphabetic words of length >= 4, ordered by decreasing
\* frequency with ties broken by first occurrence in the text; every returned
\* word occurs at least as often as every qualifying word not returned.
C26_ExtractedKeywords ==
  (HasReturned /\ call.question.question_type # "MCQ"
     /\ call.question.question_type # "TRUE_FALSE") =>
    \E text \in { Lower(call.question.expected_answer) },
       kws \in { ExtractKeywords(call.question.expected_answer) } :
       /\ Len(kws) <= 5
       /\ \A i \in 1..Len(kws) : kws[i] \in Qualifying(text)
       /\ \A i \in 1..Len(kws), j \in 1..Len(kws) :
            i < j =>
              \E ni \in { Cardinality(Occurrences(text, kws[i])) },
                 nj \in { Cardinality(Occurrences(text, kws[j])) } :
                 \/ ni > nj
                 \/ ni = nj /\ FirstSeen(text, kws[i]) < FirstSeen(text, kws[j])
       /\ \A w \in Qualifying(text) :
            (\A i \in 1..Len(kws) : kws[i] # w) =>
               \A i \in 1..Len(kws) :
                  Cardinality(Occurrences(text, kws[i]))
                    >= Cardinality(Occurrences(text, w))

\* an expected answer with six qualifying words, one written in two cases,
\* was graded: the five keywords start with the two most frequent words, the
\* words seen once follow in the order of the text and the last one is left
\* out
C26_SixthWordLeftOut ==
  /\ HasReturned
  /\ call.question.question_type = "SHORT"
  /\ call.question.grading_criteria = <<>>
  /\ Cardinality(Qualifying(Lower(call.question.expected_answer))) = 6
  /\ ExtractKeywords(call.question.expected_answer)
       = << TxtData, TxtBeta, TxtBase, TxtAlfa, TxtGama >>
  /\ call.locals.keyword_score = (2 * Unit) \div 5

\* the pass mark of the strategy that graded the returned result, in
\* hundredths: 0.7 for keyword-and-similarity, 0.6 for comprehensive
PassMark == IF MethodUsed = "keyword_similarity" THEN 70 ELSE 60

\* the returned result was produced by one of the two scoring strategies
IsScored == HasReturned /\ MethodUsed \in {"keyword_similarity", "comprehensive"}

\* C30 (as claimed): the recorded metadata agrees with the verdict: for SHORT
\* questions is_correct is true exactly when metadata.combined_score (the
\* combined score rounded to 2 decimals) is >= 0.7, and for LONG and ESSAY
\* questions exactly when metadata.combined_score is >= 0.6.
C30_VerdictAgreesWithMetadata ==
  IsScored =>
    (call.result.is_correct <=> call.result.metadata.combined_score >= PassMark)

\* C30 (amended): is_correct is decided on the unrounded combined score, so
\* a correct answer has a metadata.combined_score of at least the pass mark
\* (0.7 for SHORT, 0.6 for LONG and ESSAY) and a metadata.combined_score
\* above the pass mark belongs to a correct answer; when
\* metadata.combined_score equals the pass mark, is_correct is true exactly
\* when the unrounded combined score has reached it.
C30_VerdictAgreesUpToRounding ==
  IsScored =>
    /\ call.result.is_correct => call.result.metadata.combined_score >= PassMark
    /\ call.result.metadata.combined_score > PassMark => call.result.is_correct
    /\ call.result.metadata.combined_score = PassMark =>
         (call.result.is_correct
            <=> 10 * call.locals.combined_score >= PassMark * Unit)

\* a SHORT answer with a combined score just below 0.7 is recorded with a
\* metadata.combined_score of 0.7 and is not correct
C30_RoundedUpToThePassMark ==
  /\ HasReturned
  /\ call.question.question_type = "SHORT"
  /\ call.result.metadata.combined_score = 70
  /\ call.locals.combined_score < 7 * Unit
  /\ ~call.result.is_correct

(***************************************************************************)
(* The course of the grading of a create request                           *)
(***************************************************************************)
\* the calls of the grader that request r has made, in their order
CallsOf(r) ==
  SelectSeq(requests[r].grading.events, LAMBDA e : e.op = "grade")

\* the statuses that request r has written to its submission, in their order
StatusesOf(r) ==
  [k \in 1..Len(SelectSeq(requests[r].grading.events, LAMBDA e : e.op # "grade"))
     |-> SelectSeq(requests[r].grading.events, LAMBDA e : e.op # "grade")[k].status]

\* the sum of the scores that the calls returned, in cents
RECURSIVE SumOfScores(_)
SumOfScores(calls) ==
  IF calls = <<>> THEN 0
  ELSE (IF Head(calls).score = None THEN 0 ELSE Head(calls).score[1].cents)
         + SumOfScores(Tail(calls))

\* the submissions of request r, written and perhaps not yet committed
WrittenBy(r) ==
  IF requests[r].pc = "new" THEN {}
  ELSE SubmissionsOf(r) \cup requests[r].txn.submissions

\* C27: during the grading of one submission the answers are graded one at
\* a time in the order they were submitted, each exactly once; when the
\* submission reaches GRADED its total_score is the sum of the scores the
\* grader returned for its answers, and each score is stored on its answer.
C27_GradedInOrderAndSummed ==
  \A r \in RequestIds :
    (requests[r].pc # "new" /\ requests[r].grading.performed) =>
      \E calls \in { CallsOf(r) }, sent \in { requests[r].data.answers } :
         /\ Len(calls) <= Len(sent)
         /\ \A k \in 1..Len(calls) :
              /\ calls[k].index = k
              /\ calls[k].score = None => k = Len(calls)
         /\ (\A k \in 1..Len(calls) : calls[k].score # None)
              => Len(calls) = Len(sent)
         /\ \A k \in 1..Len(calls), answer \in requests[r].response.answers :
              (calls[k].score # None /\ answer.question = sent[k].question_id)
                => /\ answer.score # None
                   /\ answer.score[1].cents = calls[k].score[1].cents
         /\ \A submission \in { requests[r].grading.left[1] } \cup WrittenBy(r) :
              submission.status = "GRADED" =>
                 /\ submission.total_score # None
                 /\ submission.total_score[1].cents = SumOfScores(calls)

\* a request with two answers, sent in another order than that of the
\* questions, whose submission _grade_submission has brought to GRADED with
\* the sum of the two scores
C27_TwoAnswersGradedAndSummed ==
  \E r \in RequestIds :
    /\ Answered(r)
    /\ requests[r].grading.performed
    /\ requests[r].grading.left[1].status = "GRADED"
    /\ Len(requests[r].data.answers) = 2
    /\ requests[r].data.answers[1].question_id
         > requests[r].data.answers[2].question_id
    /\ Len(CallsOf(r)) = 2
    /\ requests[r].grading.left[1].total_score[1].cents = 2000
    /\ \A answer \in requests[r].response.answers : answer.score[1].cents = 1000

C29_FailedCarriesNoResult ==
  \A submission \in db.submissions :
    submission.status = "FAILED" =>
      /\ submission.total_score = None
      /\ submission.percentage = None
      /\ submission.graded_at = None

=============================================================================
